---------------------------- MODULE Spec2Model ----------------------------
(***************************************************************************)
(* A model of the grievance chatbot: the record store (dbmanager.py,       *)
(* class DatabaseManager, over the SQLite tables grievances and            *)
(* temp_chat_sessions) and the conversation engine (rag_chatbot.py, class  *)
(* GrievanceChatbot.process_message).                                      *)
(*                                                                         *)
(* Text is a sequence of strings.  A one-character string is that          *)
(* character; a longer string is a fixed piece of text of the program (a   *)
(* JSON key, a canned reply) that is kept whole.                           *)
(***************************************************************************)
EXTENDS Integers, Sequences, FiniteSets, TLC

VARIABLES
    grievances,   \* table grievances: the rows in rowid order
    sessions,     \* table temp_chat_sessions: session_id -> <<>> or <<row>>
    now,          \* the clock that CURRENT_TIMESTAMP and datetime.now() read
    turns,        \* the turns of the conversation SpecTurns drives, in order
    calls,        \* the store call each thread is in: its position and locals
    _lock         \* self._lock of each DatabaseManager: the thread holding it

vars == <<grievances, sessions, now, turns, calls, _lock>>

----------------------------------------------------------------------------
(* Bounds of the model *)

MaxEntries == 4        \* chat entries in the two tables together
MaxStoreEntries == 3   \* the same, when the store is called directly
MaxTurns == 5          \* turns of the conversation of SpecTurns
MaxNow == 4            \* ticks of the clock of SpecSweep

----------------------------------------------------------------------------
(* Characters *)

LowerCase == <<"a","b","c","d","e","f","g","h","i","j","k","l","m",
               "n","o","p","q","r","s","t","u","v","w","x","y","z">>
UpperCase == <<"A","B","C","D","E","F","G","H","I","J","K","L","M",
               "N","O","P","Q","R","S","T","U","V","W","X","Y","Z">>
Digits == {"0","1","2","3","4","5","6","7","8","9"}
AsciiLetters == {LowerCase[i] : i \in 1..26} \cup {UpperCase[i] : i \in 1..26}
\* str.isalpha() is true of every Unicode letter.  "U+00E9" and "U+00C9" are
\* the single characters e-acute and E-acute.
NonAsciiLetters == {"U+00E9", "U+00C9"}
Letters == AsciiLetters \cup NonAsciiLetters
Whitespace == {" "}

ToUpper(c) ==
    IF \E i \in 1..26 : LowerCase[i] = c
    THEN UpperCase[CHOOSE i \in 1..26 : LowerCase[i] = c]
    ELSE IF c = "U+00E9" THEN "U+00C9" ELSE c

ToLower(c) ==
    IF \E i \in 1..26 : UpperCase[i] = c
    THEN LowerCase[CHOOSE i \in 1..26 : UpperCase[i] = c]
    ELSE IF c = "U+00C9" THEN "U+00E9" ELSE c

\* SQLite's LIKE folds the case of ASCII letters only
AsciiFold(c) == IF c \in AsciiLetters THEN ToLower(c) ELSE c

RECURSIVE Concat(_)
Concat(ss) == IF ss = <<>> THEN <<>> ELSE Head(ss) \o Concat(Tail(ss))


\* str.upper()
Upper(s) == [i \in 1..Len(s) |-> ToUpper(s[i])]

----------------------------------------------------------------------------
(* json.dumps of a chat_history, and SQLite's LIKE *)

\* How json.dumps (ensure_ascii) writes one character inside a string
JsonChar(c) ==
    CASE c = "\"" -> <<"\\", "\"">>
      [] c = "\\" -> <<"\\", "\\">>
      [] c = "U+00E9" -> <<"\\", "u", "0", "0", "e", "9">>
      [] c = "U+00C9" -> <<"\\", "u", "0", "0", "c", "9">>
      [] OTHER    -> <<c>>

JsonString(s) == Concat([i \in 1..Len(s) |-> JsonChar(s[i])])

SessionKey == "\"session_id\": \""

JsonEntry(e) ==
    <<"{", SessionKey>> \o JsonString(e.session_id)
        \o <<"\"", ", \"chat_text\": \"">> \o JsonString(e.chat_text)
        \o <<"\"", ", \"timestamp\": ..., \"is_user\": ...}">>

JsonHistory(h) ==
    <<"[">> \o Concat([i \in 1..Len(h) |->
                 (IF i = 1 THEN <<>> ELSE <<", ">>) \o JsonEntry(h[i])])
          \o <<"]">>

\* The pattern f'%"session_id": "{session_id}"%'
SessionPattern(session_id) == <<"%", SessionKey>> \o session_id \o <<"\"", "%">>

\* The single characters.  Every other string of a text is a piece kept
\* whole, which is longer than one character: the wildcard _ stands for one
\* character and matches none of them.
OneChar ==
    Letters \cup Digits \cup Whitespace
        \cup {"\"", "\\", "%", "_", "+", "-", "{", "}", "[", "]", ",", ":", "."}

RECURSIVE LikeFrom(_, _, _, _)
LikeFrom(pat, txt, i, j) ==
    IF i > Len(pat) THEN j > Len(txt)
    ELSE IF pat[i] = "%"
         THEN \E k \in j..(Len(txt) + 1) : LikeFrom(pat, txt, i + 1, k)
    ELSE IF j > Len(txt) THEN FALSE
    ELSE IF pat[i] = "_"
         THEN txt[j] \in OneChar
              /\ LikeFrom(pat, txt, i + 1, j + 1)
    ELSE AsciiFold(pat[i]) = AsciiFold(txt[j])
         /\ LikeFrom(pat, txt, i + 1, j + 1)

\* txt LIKE pat
Like(txt, pat) == LikeFrom(pat, txt, 1, 1)

----------------------------------------------------------------------------
(* Values of the store *)

\* SQL NULL and Python None in a text column
NULL == "NULL"

\* An optional value is <<>> (None, NULL, no row) or <<v>>
None == <<>>
Some(v) == <<v>>

\* if x: of a str or a None argument
Truthy(text) == text # <<>>

\* The conversation states, rag_chatbot.py's STATES
INITIAL_CHOICE == "initial_choice"
COLLECTING_NAME == "collecting_name"
COLLECTING_MOBILE == "collecting_mobile"
COLLECTING_COMPLAINT == "collecting_complaint"
COLLECTING_COMPLAINT_ID_OR_MOBILE == "collecting_complaint_id_or_mobile"
COMPLETED == "completed"

\* A user_data dict: a key that is absent holds <<>> (no stored value is
\* empty: a name, a mobile and the details are non-empty text)
EmptyUserData == [name |-> <<>>, mobile |-> <<>>, complaint_details |-> <<>>]

\* The marker of an entry the store itself writes
SystemMarker == <<"system">>

\* The chat_entry dict of add_chat_message
ChatEntry(session_id, message, is_user) ==
    [session_id |-> session_id,
     chat_text  |-> <<IF is_user THEN "User: " ELSE "Bot: ">> \o message,
     timestamp  |-> now,
     is_user    |-> is_user]

\* An entry the store writes: f"System: {text}"
SystemEntry(session_id, text) ==
    [session_id |-> session_id,
     chat_text  |-> <<"System: ">> \o text,
     timestamp  |-> now,
     is_user    |-> FALSE]

\* The store: both tables
Store == [g |-> grievances, s |-> sessions]

\* What a call gives: the store after it, whether it raised, what it returned
Returned(st, ret) == [st |-> st, raised |-> FALSE, ret |-> ret]
Raised(st, err)   == [st |-> st, raised |-> TRUE, ret |-> <<err>>]

\* The rows of grievances with this complaint_id (UNIQUE: at most one)
RowsOf(st, complaint_id) ==
    {i \in 1..Len(st.g) : st.g[i].complaint_id = complaint_id}

----------------------------------------------------------------------------
(* The temp_chat_sessions table *)

\* INSERT OR REPLACE INTO temp_chat_sessions (session_id, chat_history,
\* updated_at): the row it replaces is deleted, and the columns it does not
\* name take their defaults (user_data and current_step NULL, created_at now)
_add_to_temp_session_chat_history(st, session_id, chat_entry) ==
    LET chat_history == IF st.s[session_id] = None THEN <<>>
                        ELSE st.s[session_id][1].chat_history
        row == [user_data    |-> None,
                current_step |-> NULL,
                chat_history |-> Append(chat_history, chat_entry),
                created_at   |-> now,
                updated_at   |-> now]
    IN  [st EXCEPT !.s[session_id] = Some(row)]

\* INSERT OR REPLACE INTO temp_chat_sessions (session_id, user_data,
\* current_step, updated_at): chat_history takes its default '[]'
update_chat_session(st, session_id, user_data, current_step) ==
    IF ~Truthy(session_id) THEN Raised(st, "ValueError")
    ELSE LET row == [user_data    |-> Some(user_data),
                     current_step |-> current_step,
                     chat_history |-> <<>>,
                     created_at   |-> now,
                     updated_at   |-> now]
         IN  Returned([st EXCEPT !.s[session_id] = Some(row)], None)

\* The dict of a stored session, or None
get_temp_chat_session(st, session_id) ==
    IF ~Truthy(session_id) THEN None
    ELSE IF st.s[session_id] = None THEN None
    ELSE LET row == st.s[session_id][1]
         IN  Some([user_data    |-> IF row.user_data = None THEN EmptyUserData
                                    ELSE row.user_data[1],
                   current_step |-> row.current_step,
                   chat_history |-> row.chat_history])

get_chat_session(st, session_id) == get_temp_chat_session(st, session_id)

\* A delete that matches session ids as LIKE does, whatever their case
delete_temp_chat_session_Like(st, session_id) ==
    IF ~Truthy(session_id) THEN st
    ELSE [st EXCEPT !.s = [other \in DOMAIN st.s |->
             IF Len(other) = Len(session_id)
                /\ \A k \in 1..Len(other) :
                       AsciiFold(other[k]) = AsciiFold(session_id[k])
             THEN None ELSE st.s[other]]]

delete_temp_chat_session(st, session_id) ==
    IF ~Truthy(session_id) THEN st
    ELSE [st EXCEPT !.s[session_id] = None]

----------------------------------------------------------------------------
(* Which complaint a session is linked to *)

\* SELECT COUNT(*) FROM grievances WHERE chat_history LIKE ? ... count > 0
_is_session_already_used(st, session_id) ==
    \E i \in 1..Len(st.g) :
        Like(JsonHistory(st.g[i].chat_history), SessionPattern(session_id))

_can_session_be_added_to_complaint(st, session_id, complaint_id) ==
    IF \E i \in RowsOf(st, complaint_id) :
           \E k \in 1..Len(st.g[i].chat_history) :
               st.g[i].chat_history[k].session_id = session_id
    THEN TRUE
    ELSE ~ \E i \in 1..Len(st.g) :
              /\ st.g[i].complaint_id # complaint_id
              /\ Like(JsonHistory(st.g[i].chat_history),
                      SessionPattern(session_id))

----------------------------------------------------------------------------
(* The grievances table *)

_add_to_complaint_chat_history(st, complaint_id, chat_entry) ==
    IF RowsOf(st, complaint_id) = {} THEN Raised(st, "ValueError")
    ELSE LET i == CHOOSE i \in RowsOf(st, complaint_id) : TRUE
         IN  Returned([st EXCEPT !.g[i].chat_history = Append(@, chat_entry),
                                 !.g[i].updated_at = now], None)

add_chat_message(st, session_id, message, is_user, complaint_id) ==
    IF ~Truthy(session_id) \/ ~Truthy(message) THEN Raised(st, "RuntimeError")
    ELSE LET chat_entry == ChatEntry(session_id, message, is_user)
         IN  IF Truthy(complaint_id)
             THEN IF ~_can_session_be_added_to_complaint(st, session_id,
                                                         complaint_id)
                  THEN Raised(st, "RuntimeError")
                  ELSE LET r == _add_to_complaint_chat_history(
                                    st, complaint_id, chat_entry)
                       IN  IF r.raised THEN Raised(st, "RuntimeError") ELSE r
             ELSE Returned(_add_to_temp_session_chat_history(
                               st, session_id, chat_entry), None)

\* A registration that overwrites the complaint that has the id drawn
register_grievance_Overwrites(st, name, mobile, complaint_details, session_id, complaint_id) ==
    IF ~(Truthy(name) /\ Truthy(mobile) /\ Truthy(complaint_details))
    THEN Raised(st, "RuntimeError")
    ELSE IF Truthy(session_id) /\ _is_session_already_used(st, session_id)
    THEN Raised(st, "RuntimeError")
    ELSE LET temp_session == get_temp_chat_session(st, session_id)
             chat_history ==
                 IF Truthy(session_id) /\ temp_session # None
                 THEN temp_session[1].chat_history
                 ELSE <<>>
             registration_entry ==
                 SystemEntry(IF Truthy(session_id) THEN session_id
                             ELSE SystemMarker,
                             <<"Complaint registered successfully with ID ">>
                                 \o complaint_id)
             row == [complaint_id      |-> complaint_id,
                     name              |-> name,
                     mobile            |-> mobile,
                     complaint_details |-> complaint_details,
                     status            |-> <<"Submitted">>,
                     chat_history      |-> Append(chat_history,
                                                  registration_entry),
                     created_at        |-> now,
                     updated_at        |-> now]
             kept == SelectSeq(st.g, LAMBDA g : g.complaint_id # complaint_id)
         IN  Returned(delete_temp_chat_session(
                          [st EXCEPT !.g = Append(kept, row)], session_id),
                      complaint_id)

\* complaint_id is the id random.choices drew
register_grievance(st, name, mobile, complaint_details, session_id, complaint_id) ==
    IF ~(Truthy(name) /\ Truthy(mobile) /\ Truthy(complaint_details))
    THEN Raised(st, "RuntimeError")
    ELSE IF Truthy(session_id) /\ _is_session_already_used(st, session_id)
    THEN Raised(st, "RuntimeError")
    ELSE LET temp_session == get_temp_chat_session(st, session_id)
             chat_history ==
                 IF Truthy(session_id) /\ temp_session # None
                 THEN temp_session[1].chat_history
                 ELSE <<>>
             registration_entry ==
                 SystemEntry(IF Truthy(session_id) THEN session_id
                             ELSE SystemMarker,
                             <<"Complaint registered successfully with ID ">>
                                 \o complaint_id)
             row == [complaint_id      |-> complaint_id,
                     name              |-> name,
                     mobile            |-> mobile,
                     complaint_details |-> complaint_details,
                     status            |-> <<"Submitted">>,
                     chat_history      |-> Append(chat_history,
                                                  registration_entry),
                     created_at        |-> now,
                     updated_at        |-> now]
         IN  \* complaint_id TEXT UNIQUE: the INSERT fails on a duplicate
             IF RowsOf(st, complaint_id) # {}
             THEN Raised(st, "RuntimeError")
             ELSE Returned(delete_temp_chat_session(
                               [st EXCEPT !.g = Append(@, row)], session_id),
                           complaint_id)

\* The rows a lookup by mobile may return: ORDER BY created_at DESC LIMIT 1
\* leaves the order of rows with the same created_at to the engine
RowsByMobile(st, mobile) ==
    {i \in 1..Len(st.g) :
        /\ st.g[i].mobile = mobile
        /\ \A k \in 1..Len(st.g) :
               st.g[k].mobile = mobile => st.g[k].created_at <= st.g[i].created_at}

\* pick is the row the engine returns first among those of RowsByMobile
get_grievance_status(st, complaint_id, mobile, pick) ==
    IF ~Truthy(complaint_id) /\ ~Truthy(mobile) THEN None
    ELSE LET rows == IF Truthy(complaint_id) THEN RowsOf(st, complaint_id)
                     ELSE RowsByMobile(st, mobile) \cap {pick}
         IN  IF rows = {} THEN None
             ELSE LET row == st.g[CHOOSE i \in rows : TRUE]
                  IN  Some([complaint_id |-> row.complaint_id,
                            name         |-> row.name,
                            status       |-> row.status,
                            created_at   |-> row.created_at,
                            updated_at   |-> row.updated_at,
                            chat_history |-> row.chat_history])

\* The rows pick ranges over for a lookup by mobile (0: no row)
Picks(st, mobile) ==
    IF RowsByMobile(st, mobile) = {} THEN {0} ELSE RowsByMobile(st, mobile)

\* A status write that replaces the row, leaving the columns it does not name
\* at their defaults
update_grievance_status_Replaces(st, complaint_id, new_status, update_message) ==
    IF ~Truthy(complaint_id) \/ ~Truthy(new_status) THEN Raised(st, "ValueError")
    ELSE IF RowsOf(st, complaint_id) = {} THEN Raised(st, "ValueError")
    ELSE LET i == CHOOSE i \in RowsOf(st, complaint_id) : TRUE
             updated == [st EXCEPT !.g[i].status = new_status,
                                   !.g[i].name = <<>>,
                                   !.g[i].mobile = <<>>,
                                   !.g[i].complaint_details = <<>>,
                                   !.g[i].updated_at = now]
         IN  IF Truthy(update_message)
             THEN _add_to_complaint_chat_history(
                      updated, complaint_id,
                      SystemEntry(SystemMarker, update_message))
             ELSE Returned(updated, None)

update_grievance_status(st, complaint_id, new_status, update_message) ==
    IF ~Truthy(complaint_id) \/ ~Truthy(new_status) THEN Raised(st, "ValueError")
    ELSE IF RowsOf(st, complaint_id) = {} THEN Raised(st, "ValueError")
    ELSE LET i == CHOOSE i \in RowsOf(st, complaint_id) : TRUE
             updated == [st EXCEPT !.g[i].status = new_status,
                                   !.g[i].updated_at = now]
         IN  IF Truthy(update_message)
             THEN _add_to_complaint_chat_history(
                      updated, complaint_id,
                      SystemEntry(SystemMarker, update_message))
             ELSE Returned(updated, None)

\* for chat_entry in temp_session['chat_history']:
\*     self._add_to_complaint_chat_history(complaint_id, chat_entry)
RECURSIVE AddEach(_, _, _)
AddEach(st, complaint_id, entries) ==
    IF entries = <<>> THEN Returned(st, None)
    ELSE LET r == _add_to_complaint_chat_history(st, complaint_id,
                                                 Head(entries))
         IN  IF r.raised THEN r
             ELSE AddEach(r.st, complaint_id, Tail(entries))

True == <<"True">>
False == <<"False">>

add_session_to_existing_complaint(st, complaint_id, session_id) ==
    IF ~Truthy(complaint_id) \/ ~Truthy(session_id) THEN Returned(st, False)
    ELSE IF ~_can_session_be_added_to_complaint(st, session_id, complaint_id)
    THEN Returned(st, False)
    ELSE LET temp_session == get_temp_chat_session(st, session_id)
         IN  IF temp_session = None \/ temp_session[1].chat_history = <<>>
             THEN Returned(st, True)
             ELSE LET continuation_entry ==
                          SystemEntry(session_id,
                              <<"Continued conversation in session ">>
                                  \o session_id)
                      r == AddEach(st, complaint_id,
                                   Append(temp_session[1].chat_history,
                                          continuation_entry))
                  IN  \* except Exception: return False
                      IF r.raised THEN Returned(r.st, False)
                      ELSE Returned(delete_temp_chat_session(r.st, session_id),
                                    True)

----------------------------------------------------------------------------
(* extract_info_from_message *)

\* [6-9]\d{9} at position i
MobileCoreAt(m, i) ==
    /\ i >= 1
    /\ i + 9 <= Len(m)
    /\ m[i] \in {"6", "7", "8", "9"}
    /\ \A k \in 1..9 : m[i + k] \in Digits

TextAt(m, i, t) ==
    /\ i + Len(t) - 1 <= Len(m)
    /\ \A k \in 1..Len(t) : m[i + k - 1] = t[k]

SeparatorAt(m, i) == i <= Len(m) /\ m[i] \in Whitespace \cup {"-"}

\* Where the ten digits start in the match of (\+91|91)?[\s-]?[6-9]\d{9}
\* that begins at i, in the order the regex engine tries them; 0: no match.
\* The digits of the match are 91 and the ten digits, or the ten digits, so
\* what is returned is the ten digits either way.
MobileMatchAt(m, i) ==
    IF TextAt(m, i, <<"+","9","1">>) /\ SeparatorAt(m, i + 3)
           /\ MobileCoreAt(m, i + 4) THEN i + 4
    ELSE IF TextAt(m, i, <<"+","9","1">>) /\ MobileCoreAt(m, i + 3) THEN i + 3
    ELSE IF TextAt(m, i, <<"9","1">>) /\ SeparatorAt(m, i + 2)
           /\ MobileCoreAt(m, i + 3) THEN i + 3
    ELSE IF TextAt(m, i, <<"9","1">>) /\ MobileCoreAt(m, i + 2) THEN i + 2
    ELSE IF SeparatorAt(m, i) /\ MobileCoreAt(m, i + 1) THEN i + 1
    ELSE IF MobileCoreAt(m, i) THEN i
    ELSE 0

ExtractMobile(m) ==
    IF \E i \in 1..Len(m) : MobileMatchAt(m, i) # 0
    THEN LET i == CHOOSE i \in 1..Len(m) :
                      /\ MobileMatchAt(m, i) # 0
                      /\ \A k \in 1..(i - 1) : MobileMatchAt(m, k) = 0
             c == MobileMatchAt(m, i)
         IN  SubSeq(m, c, c + 9)
    ELSE None

\* str.strip()
RECURSIVE Strip(_)
Strip(m) ==
    IF m = <<>> THEN m
    ELSE IF Head(m) \in Whitespace THEN Strip(Tail(m))
    ELSE IF m[Len(m)] \in Whitespace THEN Strip(SubSeq(m, 1, Len(m) - 1))
    ELSE m

\* len(message.split())
WordCount(m) ==
    Cardinality({i \in 1..Len(m) :
        m[i] \notin Whitespace /\ (i = 1 \/ m[i - 1] \in Whitespace)})

\* str.title(): a letter after a letter is lowered, any other letter raised
Title(m) ==
    [i \in 1..Len(m) |->
        IF i > 1 /\ m[i - 1] \in Letters THEN ToLower(m[i]) ELSE ToUpper(m[i])]

ExtractName(m) ==
    LET message == Strip(m)
    IN  IF /\ \A i \in 1..Len(message) : message[i] \in Letters \cup Whitespace
           /\ WordCount(message) >= 1
           /\ WordCount(message) <= 4
        THEN Title(message)
        ELSE None

\* [Gg][Rr][Vv]\d{6} at position i
ComplaintIdAt(m, i) ==
    /\ i + 8 <= Len(m)
    /\ m[i] \in {"G", "g"} /\ m[i + 1] \in {"R", "r"} /\ m[i + 2] \in {"V", "v"}
    /\ \A k \in 3..8 : m[i + k] \in Digits

ExtractComplaintId(m) ==
    IF \E i \in 1..Len(m) : ComplaintIdAt(m, i)
    THEN LET i == CHOOSE i \in 1..Len(m) :
                      /\ ComplaintIdAt(m, i)
                      /\ \A k \in 1..(i - 1) : ~ComplaintIdAt(m, k)
         IN  Upper(SubSeq(m, i, i + 8))
    ELSE None

extract_info_from_message(message, info_type) ==
    IF info_type = "mobile" THEN ExtractMobile(message)
    ELSE IF info_type = "name" THEN ExtractName(message)
    ELSE IF info_type = "complaint_id" THEN ExtractComplaintId(message)
    ELSE None

----------------------------------------------------------------------------
(* The external model: what generate_content does on one call *)

\* The classifier call: a text that strip().lower() makes one of the three
\* labels, any other text, or an exception
ClassifierOutcomes ==
    {"register_complaint", "check_status", "general", "unrecognized", "exception"}

analyze_intent(llm) ==
    IF llm \in {"register_complaint", "check_status", "general"} THEN llm
    ELSE "general"

\* The answer call: a text with neither "I'm sorry" nor "try again" in it, a
\* text with "I'm sorry" in it, the empty text, or an exception
AnswerOutcomes == {"answer", "sorry", "empty", "exception"}

get_rag_response(rag) ==
    IF rag = "answer" THEN <<"(an answer of the model)">>
    ELSE IF rag = "sorry" THEN <<"I'm sorry", ", (an answer of the model)">>
    ELSE IF rag = "empty" THEN <<>>
    ELSE <<"I apologize, but I'm having trouble processing your request right now. Please ",
           "try again", " later. (Error: ...)">>

\* An apology test that knows "I'm sorry" only
LooksLikeApology_SorryOnly(response) ==
    \E i \in 1..Len(response) : response[i] \in {"I'm sorry"}

\* "I'm sorry" in response or "try again" in response
LooksLikeApology(response) ==
    \E i \in 1..Len(response) : response[i] \in {"I'm sorry", "try again"}

----------------------------------------------------------------------------
(* The replies of process_message *)

WelcomeText == <<"Hello! I'm your grievance management assistant. How can I help you today? ...">>
AskNameText == <<"I'll help you register your complaint. First, could you please provide your full name?">>
AskIdOrMobileText == <<"To check your complaint status, please provide your complaint ID or the mobile number used during registration.">>
RepromptText == <<"I can help you with two main things: registering a new complaint or checking the status of an existing one. Please tell me which one you'd like to do.">>
AskMobileText(name) == <<"Thank you, ">> \o name \o <<". Now, please provide your 10-digit mobile number.">>
InvalidNameText == <<"That doesn't look like a valid name. Please provide your full name (e.g., John Doe).">>
AskComplaintText == <<"Great! Now, please describe your complaint or issue in detail ...">>
InvalidMobileText == <<"Please provide a valid 10-digit mobile number.">>
RegisteredText(complaint_id) ==
    <<"Your complaint has been registered successfully!\n\nComplaint ID: ">>
        \o complaint_id \o <<"\n\nYou can use this ID to check the status of your complaint. ...">>
RegisterErrorText == <<"I'm sorry", ", I encountered an error while trying to register your complaint: ...">>
TooShortText == <<"Please provide a more detailed description of your complaint (at least 10 characters).">>
StatusText(status_info) ==
    <<"Your complaint (ID: ">> \o status_info.complaint_id
        \o <<") is currently: ">> \o status_info.status
        \o <<". Registered by ">>
        \o status_info.name \o <<" on (created_at).">>
NotFoundText == <<"I couldn't find any complaints with the provided ID or mobile number. ...">>

----------------------------------------------------------------------------
(* process_message *)

\* What the branch of a turn decides
Branch(st, response, current_step, user_data, registered) ==
    [st |-> st, response |-> response, current_step |-> current_step,
     user_data |-> user_data, is_complaint_registered |-> registered]

\* if current_step == INITIAL_CHOICE
InitialChoiceBranch(st, user_data, llm, rag) ==
    LET intent == analyze_intent(llm)
    IN  IF intent = "register_complaint"
        THEN Branch(st, AskNameText, COLLECTING_NAME, user_data, FALSE)
        ELSE IF intent = "check_status"
        THEN Branch(st, AskIdOrMobileText, COLLECTING_COMPLAINT_ID_OR_MOBILE,
                    user_data, FALSE)
        ELSE LET response == get_rag_response(rag)
             IN  Branch(st, IF LooksLikeApology(response) THEN RepromptText
                            ELSE response,
                        INITIAL_CHOICE, user_data, FALSE)

\* A name step that moves on without keeping the name
CollectingNameBranch_Forgets(st, message, user_data) ==
    LET name == extract_info_from_message(message, "name")
    IN  IF Truthy(name)
        THEN Branch(st, AskMobileText(name), COLLECTING_MOBILE, user_data, FALSE)
        ELSE Branch(st, InvalidNameText, COLLECTING_NAME, user_data, FALSE)

\* elif current_step == COLLECTING_NAME
CollectingNameBranch(st, message, user_data) ==
    LET name == extract_info_from_message(message, "name")
    IN  IF Truthy(name)
        THEN Branch(st, AskMobileText(name), COLLECTING_MOBILE,
                    [user_data EXCEPT !.name = name], FALSE)
        ELSE Branch(st, InvalidNameText, COLLECTING_NAME, user_data, FALSE)

\* A failed mobile check that clears what was collected
CollectingMobileBranch_Cleared(st, message, user_data) ==
    LET mobile == extract_info_from_message(message, "mobile")
    IN  IF Truthy(mobile)
        THEN Branch(st, AskComplaintText, COLLECTING_COMPLAINT,
                    [user_data EXCEPT !.mobile = mobile], FALSE)
        ELSE Branch(st, InvalidMobileText, COLLECTING_MOBILE, EmptyUserData,
                    FALSE)

\* elif current_step == COLLECTING_MOBILE
CollectingMobileBranch(st, message, user_data) ==
    LET mobile == extract_info_from_message(message, "mobile")
    IN  IF Truthy(mobile)
        THEN Branch(st, AskComplaintText, COLLECTING_COMPLAINT,
                    [user_data EXCEPT !.mobile = mobile], FALSE)
        ELSE Branch(st, InvalidMobileText, COLLECTING_MOBILE, user_data, FALSE)

\* A registration that leaves the session in 'completed'
CollectingComplaintBranch_Completed(st, session_id, message, user_data, complaint_id) ==
    IF Len(Strip(message)) >= 10
    THEN LET r == register_grievance(st, user_data.name, user_data.mobile,
                                     message, session_id, complaint_id)
         IN  IF r.raised
             THEN Branch(r.st, RegisterErrorText, INITIAL_CHOICE,
                         EmptyUserData, FALSE)
             ELSE Branch(r.st, RegisteredText(r.ret), COMPLETED,
                         EmptyUserData, TRUE)
    ELSE Branch(st, TooShortText, COLLECTING_COMPLAINT, user_data, FALSE)

\* A failed registration that keeps the current step and what was collected
CollectingComplaintBranch_Kept(st, session_id, message, user_data, complaint_id) ==
    IF Len(Strip(message)) >= 10
    THEN LET r == register_grievance(st, user_data.name, user_data.mobile,
                                     message, session_id, complaint_id)
         IN  IF r.raised
             THEN Branch(r.st, RegisterErrorText, COLLECTING_COMPLAINT,
                         user_data, FALSE)
             ELSE Branch(r.st, RegisteredText(r.ret), INITIAL_CHOICE,
                         EmptyUserData, TRUE)
    ELSE Branch(st, TooShortText, COLLECTING_COMPLAINT, user_data, FALSE)

\* A registration that passes the mobile number as the name
CollectingComplaintBranch_Swapped(st, session_id, message, user_data, complaint_id) ==
    IF Len(Strip(message)) >= 10
    THEN LET r == register_grievance(st, user_data.mobile, user_data.name,
                                     message, session_id, complaint_id)
         IN  IF r.raised
             THEN Branch(r.st, RegisterErrorText, INITIAL_CHOICE,
                         EmptyUserData, FALSE)
             ELSE Branch(r.st, RegisteredText(r.ret), INITIAL_CHOICE,
                         EmptyUserData, TRUE)
    ELSE Branch(st, TooShortText, COLLECTING_COMPLAINT, user_data, FALSE)

\* A registration that succeeds without setting is_complaint_registered
CollectingComplaintBranch_Unflagged(st, session_id, message, user_data, complaint_id) ==
    IF Len(Strip(message)) >= 10
    THEN LET r == register_grievance(st, user_data.name, user_data.mobile,
                                     message, session_id, complaint_id)
         IN  IF r.raised
             THEN Branch(r.st, RegisterErrorText, INITIAL_CHOICE,
                         EmptyUserData, FALSE)
             ELSE Branch(r.st, RegisteredText(r.ret), INITIAL_CHOICE,
                         EmptyUserData, FALSE)
    ELSE Branch(st, TooShortText, COLLECTING_COMPLAINT, user_data, FALSE)

\* elif current_step == COLLECTING_COMPLAINT.  user_data['name'] of an absent
\* key raises KeyError inside the try, as register_grievance does on an
\* empty name: both end in the except branch.
CollectingComplaintBranch(st, session_id, message, user_data, complaint_id) ==
    IF Len(Strip(message)) >= 10
    THEN LET r == register_grievance(st, user_data.name, user_data.mobile,
                                     message, session_id, complaint_id)
         IN  IF r.raised
             THEN Branch(r.st, RegisterErrorText, INITIAL_CHOICE,
                         EmptyUserData, FALSE)
             ELSE Branch(r.st, RegisteredText(r.ret), INITIAL_CHOICE,
                         EmptyUserData, TRUE)
    ELSE Branch(st, TooShortText, COLLECTING_COMPLAINT, user_data, FALSE)

\* A status inquiry that waits for another id when it finds nothing
StatusInquiryBranch_Retry(st, message, pick) ==
    LET complaint_id == extract_info_from_message(message, "complaint_id")
        mobile == extract_info_from_message(message, "mobile")
        status_info ==
            IF Truthy(complaint_id)
            THEN get_grievance_status(st, complaint_id, None, pick)
            ELSE IF Truthy(mobile)
            THEN get_grievance_status(st, None, mobile, pick)
            ELSE None
    IN  IF status_info # None
        THEN Branch(st, StatusText(status_info[1]), INITIAL_CHOICE,
                    EmptyUserData, FALSE)
        ELSE Branch(st, NotFoundText, COLLECTING_COMPLAINT_ID_OR_MOBILE,
                    EmptyUserData, FALSE)

\* A status inquiry that falls back on the mobile when the id finds nothing
StatusInquiryBranch_Fallback(st, message, pick) ==
    LET complaint_id == extract_info_from_message(message, "complaint_id")
        mobile == extract_info_from_message(message, "mobile")
        by_id == IF Truthy(complaint_id)
                 THEN get_grievance_status(st, complaint_id, None, pick)
                 ELSE None
        status_info ==
            IF by_id # None THEN by_id
            ELSE IF Truthy(mobile)
            THEN get_grievance_status(st, None, mobile, pick)
            ELSE None
    IN  Branch(st, IF status_info # None THEN StatusText(status_info[1])
                   ELSE NotFoundText,
               INITIAL_CHOICE, EmptyUserData, FALSE)

\* elif current_step == COLLECTING_COMPLAINT_ID_OR_MOBILE
StatusInquiryBranch(st, message, pick) ==
    LET complaint_id == extract_info_from_message(message, "complaint_id")
        mobile == extract_info_from_message(message, "mobile")
        status_info ==
            IF Truthy(complaint_id)
            THEN get_grievance_status(st, complaint_id, None, pick)
            ELSE IF Truthy(mobile)
            THEN get_grievance_status(st, None, mobile, pick)
            ELSE None
    IN  Branch(st, IF status_info # None THEN StatusText(status_info[1])
                   ELSE NotFoundText,
               INITIAL_CHOICE, EmptyUserData, FALSE)

\* What a turn gives: the store after it, whether it raised, and the pair
\* (response, is_complaint_registered) it returned
TurnReturned(st, response, registered) ==
    [st |-> st, raised |-> FALSE, response |-> response,
     is_complaint_registered |-> registered]
TurnRaised(st) ==
    [st |-> st, raised |-> TRUE, response |-> <<>>,
     is_complaint_registered |-> FALSE]

\* A first contact that returns the welcome message and persists nothing
FirstContact_NotPersisted(st, session_id) ==
    TurnReturned(st, WelcomeText, FALSE)

\* if not session: persist INITIAL_CHOICE and return the welcome message
FirstContact(st, session_id) ==
    LET c == update_chat_session(st, session_id, EmptyUserData, INITIAL_CHOICE)
    IN  IF c.raised THEN TurnRaised(c.st)
        ELSE TurnReturned(c.st, WelcomeText, FALSE)

\* llm and rag are what the external model does when this turn calls it,
\* complaint_id the id a registration draws, pick the row a lookup by mobile
\* returns first
process_message(st, session_id, message, llm, rag, complaint_id, pick) ==
    LET session == get_chat_session(st, session_id)
    IN  IF session = None
        THEN FirstContact(st, session_id)
        ELSE LET user_data == session[1].user_data
                 current_step == session[1].current_step
                 a == add_chat_message(st, session_id, message, TRUE, None)
                 d == IF current_step = INITIAL_CHOICE
                      THEN InitialChoiceBranch(a.st, user_data, llm, rag)
                      ELSE IF current_step = COLLECTING_NAME
                      THEN CollectingNameBranch(a.st, message, user_data)
                      ELSE IF current_step = COLLECTING_MOBILE
                      THEN CollectingMobileBranch(a.st, message, user_data)
                      ELSE IF current_step = COLLECTING_COMPLAINT
                      THEN CollectingComplaintBranch(a.st, session_id, message,
                                                     user_data, complaint_id)
                      ELSE IF current_step = COLLECTING_COMPLAINT_ID_OR_MOBILE
                      THEN StatusInquiryBranch(a.st, message, pick)
                      ELSE Branch(a.st, <<>>, current_step, user_data, FALSE)
                 b == add_chat_message(d.st, session_id, d.response, FALSE, None)
                 c == update_chat_session(b.st, session_id, d.user_data,
                                          d.current_step)
             IN  IF a.raised THEN TurnRaised(a.st)
                 ELSE IF b.raised THEN TurnRaised(b.st)
                 ELSE IF c.raised THEN TurnRaised(c.st)
                 ELSE TurnReturned(c.st, d.response, d.is_complaint_registered)

----------------------------------------------------------------------------
(* The inputs the model draws *)

SessionOrder == << <<"a">>, <<"A">>, <<"U+00E9">> >>
SessionIds == {SessionOrder[i] : i \in 1..Len(SessionOrder)}

\* The sessions that chat, and the one session of SpecTurns
ChatSessionIds == {<<"a">>, <<"U+00E9">>}
TurnSessionId == <<"a">>

\* 'GRV' + ''.join(random.choices(string.digits, k=6))
ComplaintIds ==
    {<<"G","R","V","0","0","0","0","0","1">>,
     <<"G","R","V","0","0","0","0","0","2">>}

NameText == <<"b","o","b">>
MobileText == <<"9","8","7","6","5","4","3","2","1","0">>
DetailsText == <<"n","o"," ","w","a","t","e","r"," ","t","o","d","a","y">>
IdText == <<"g","r","v","0","0","0","0","0","1">>

\* An utterance that holds a complaint id and a mobile number
BothText == IdText \o <<" ">> \o MobileText

\* What a caller says in a turn
Utterances == {NameText, MobileText, IdText}

\* What the caller of SpecTurns says in a turn
TurnUtterances == {NameText, MobileText, DetailsText}

\* The arguments of the direct calls of the store
DirectName == <<"B","o","b">>
DirectMessages == {<<"o","k">>}
DirectSessionStates ==
    {<<[EmptyUserData EXCEPT !.name = DirectName], COLLECTING_MOBILE>>}

----------------------------------------------------------------------------
(* The state machine *)

\* The threads of the API process and its two stores on one database file:
\* chatbot = GrievanceChatbot(API_KEY) with its self.db, db = DatabaseManager()
Threads == {"t1", "t2"}
StoreObjects == {"chatbot.db", "db"}

\* A thread that is in no store call
IdleCall ==
    [pc |-> "idle", op |-> "-", db |-> "-", session_id |-> None,
     complaint_id |-> None, chat_entry |-> None, chat_history |-> <<>>,
     before |-> <<>>, raised |-> FALSE]

Init ==
    /\ grievances = <<>>
    /\ sessions = [session_id \in SessionIds |-> None]
    /\ now = 0
    /\ turns = <<>>
    /\ calls = [t \in Threads |-> IdleCall]
    /\ _lock = [db \in StoreObjects |-> "free"]

RECURSIVE SumLen(_)
SumLen(histories) ==
    IF histories = <<>> THEN 0
    ELSE Len(Head(histories)) + SumLen(Tail(histories))

\* The chat entries the two tables hold
Entries(st) ==
    SumLen([i \in 1..Len(st.g) |-> st.g[i].chat_history])
        + SumLen([i \in 1..Len(SessionOrder) |->
                     IF st.s[SessionOrder[i]] = None THEN <<>>
                     ELSE st.s[SessionOrder[i]][1].chat_history])

\* The model keeps the tables within its bounds
Bounded(st) == Entries(st) <= MaxEntries

Commit(st) ==
    /\ Bounded(st)
    /\ grievances' = st.g
    /\ sessions' = st.s

StoreBounded(st) == Entries(st) <= MaxStoreEntries

StoreCommit(st) ==
    /\ StoreBounded(st)
    /\ grievances' = st.g
    /\ sessions' = st.s

\* The external calls a turn makes, "-" for a call it does not make
LlmChoices(session_id) ==
    IF sessions[session_id] # None
       /\ sessions[session_id][1].current_step = INITIAL_CHOICE
    THEN ClassifierOutcomes ELSE {"-"}

RagChoices(llm) ==
    IF llm # "-" /\ analyze_intent(llm) = "general" THEN AnswerOutcomes
    ELSE {"-"}

\* The id a turn draws, None when it registers nothing
IdChoices(session_id, message) ==
    IF sessions[session_id] # None
       /\ sessions[session_id][1].current_step = COLLECTING_COMPLAINT
       /\ Len(Strip(message)) >= 10
    THEN ComplaintIds ELSE {None}

\* The row a turn's lookup by mobile returns first, 0 when it makes none
PickChoices(session_id, message) ==
    IF sessions[session_id] # None
       /\ sessions[session_id][1].current_step
              = COLLECTING_COMPLAINT_ID_OR_MOBILE
       /\ ~Truthy(ExtractComplaintId(message))
       /\ Truthy(ExtractMobile(message))
    THEN Picks(Store, ExtractMobile(message)) ELSE {0}

\* POST /api/chat: chatbot.process_message(session_id, message)
ProcessMessage(session_id, message, llm, rag, complaint_id, pick) ==
    /\ Commit(process_message(Store, session_id, message, llm, rag,
                              complaint_id, pick).st)
    /\ UNCHANGED <<now, turns, calls, _lock>>

\* db.register_grievance(name, mobile, complaint_details[, session_id])
RegisterGrievance(session_id, complaint_id) ==
    /\ StoreCommit(register_grievance(Store, DirectName, MobileText, DetailsText,
                                 session_id, complaint_id).st)
    /\ UNCHANGED <<now, turns, calls, _lock>>

AddChatMessage(session_id, message, is_user, complaint_id) ==
    /\ StoreCommit(add_chat_message(Store, session_id, message, is_user,
                               complaint_id).st)
    /\ UNCHANGED <<now, turns, calls, _lock>>

AddSessionToExistingComplaint(complaint_id, session_id) ==
    /\ StoreCommit(add_session_to_existing_complaint(Store, complaint_id,
                                                session_id).st)
    /\ UNCHANGED <<now, turns, calls, _lock>>

UpdateChatSession(session_id, user_data, current_step) ==
    /\ StoreCommit(update_chat_session(Store, session_id, user_data,
                                  current_step).st)
    /\ UNCHANGED <<now, turns, calls, _lock>>

DeleteTempChatSession(session_id) ==
    /\ StoreCommit(delete_temp_chat_session(Store, session_id))
    /\ UNCHANGED <<now, turns, calls, _lock>>

\* POST /api/complaint/register: db.register_grievance(name, mobile, details)
RegisterComplaint(complaint_id) ==
    /\ Commit(register_grievance(Store, DirectName, MobileText, DetailsText,
                                 None, complaint_id).st)
    /\ UNCHANGED <<now, turns, calls, _lock>>

\* The running program: the chat endpoint and the direct registration
\* endpoint, which passes no session_id
Next ==
    \/ \E session_id \in ChatSessionIds, message \in Utterances :
         \E llm \in LlmChoices(session_id) :
           \E rag \in RagChoices(llm),
              complaint_id \in IdChoices(session_id, message),
              pick \in PickChoices(session_id, message) :
             ProcessMessage(session_id, message, llm, rag, complaint_id, pick)
    \/ \E complaint_id \in ComplaintIds : RegisterComplaint(complaint_id)

Spec == Init /\ [][Next]_vars

\* The store called directly
StoreNext ==
    \/ \E session_id \in SessionIds \cup {None}, complaint_id \in ComplaintIds :
         RegisterGrievance(session_id, complaint_id)
    \/ \E session_id \in SessionIds, message \in DirectMessages,
          complaint_id \in ComplaintIds \cup {None} :
         AddChatMessage(session_id, message, TRUE, complaint_id)
    \/ \E complaint_id \in ComplaintIds, session_id \in SessionIds :
         AddSessionToExistingComplaint(complaint_id, session_id)
    \/ \E session_id \in SessionIds, state \in DirectSessionStates :
         UpdateChatSession(session_id, state[1], state[2])
    \/ \E session_id \in SessionIds : DeleteTempChatSession(session_id)

SpecStore == Init /\ [][StoreNext]_vars

\* What the conversation keeps of a turn
Logged(message, r) ==
    [message  |-> message,
     raised   |-> r.raised,
     response |-> r.response,
     is_complaint_registered |-> r.is_complaint_registered]

TurnCommit(message, r) ==
    /\ grievances' = r.st.g
    /\ sessions' = r.st.s
    /\ turns' = Append(turns, Logged(message, r))

\* One conversation on a fresh session_id, its turns kept in order
Turn(message, llm, rag, complaint_id, pick) ==
    /\ Len(turns) < MaxTurns
    /\ TurnCommit(message,
                  process_message(Store, TurnSessionId, message, llm, rag,
                                  complaint_id, pick))
    /\ UNCHANGED <<now, calls, _lock>>

TurnsNext ==
    \E message \in TurnUtterances :
      \E llm \in LlmChoices(TurnSessionId) :
        \E rag \in RagChoices(llm),
           complaint_id \in IdChoices(TurnSessionId, message),
           pick \in PickChoices(TurnSessionId, message) :
          Turn(message, llm, rag, complaint_id, pick)

SpecTurns == Init /\ [][TurnsNext]_vars

----------------------------------------------------------------------------
(* Session/complaint exclusivity *)

\* ChatEntry.session_id links session_id to the complaint of row i
Linked(st, session_id, i) ==
    \E k \in 1..Len(st.g[i].chat_history) :
        st.g[i].chat_history[k].session_id = session_id

\* C1: after any sequence of register_grievance, add_chat_message with a
\* complaint_id, add_session_to_existing_complaint and process_message
\* calls, no session_id other than the marker 'system' appears in the
\* chat_history of more than one complaint.
C1_Exclusivity ==
    \A session_id \in SessionIds :
        \A i, j \in 1..Len(grievances) :
            Linked(Store, session_id, i) /\ Linked(Store, session_id, j)
                => i = j

\* C2: given session S already linked to complaint C1, add_chat_message(S,
\* msg, is_user, complaint_id=C2) for any other existing complaint C2 raises
\* and leaves both histories unchanged, register_grievance(..., session_id=S)
\* raises and creates no complaint, and add_chat_message(S, msg, is_user,
\* complaint_id=C1) returns and appends exactly one entry to C1.
C2_LinkedSessionIsRefused ==
    \A session_id \in SessionIds :
      \A i \in 1..Len(grievances) :
        Linked(Store, session_id, i) =>
          /\ \A j \in 1..Len(grievances), message \in DirectMessages,
                is_user \in BOOLEAN :
               LET r == add_chat_message(Store, session_id, message, is_user,
                                         grievances[j].complaint_id)
               IN  IF j # i
                   THEN r.raised /\ r.st.g = grievances
                   ELSE /\ ~r.raised
                        /\ r.st.g = [grievances EXCEPT ![i].chat_history =
                               Append(@, ChatEntry(session_id, message,
                                                   is_user))]
          /\ \A complaint_id \in ComplaintIds :
               LET r == register_grievance(Store, DirectName, MobileText,
                                           DetailsText, session_id,
                                           complaint_id)
               IN  r.raised /\ r.st.g = grievances

\* C4: register_grievance(name, mobile, details, session_id=S), when S is
\* linked to no complaint, creates a complaint whose chat_history is exactly
\* S's stored session chat_history in the same order followed by one
\* 'System: Complaint registered successfully ...' entry, and after it
\* returns no temp session S exists.  (The id drawn is one no complaint has.)
C4_RegistrationPromotesSession ==
    \A session_id \in SessionIds, complaint_id \in ComplaintIds :
        (/\ \A i \in 1..Len(grievances) : ~Linked(Store, session_id, i)
         /\ RowsOf(Store, complaint_id) = {})
        => LET r == register_grievance(Store, DirectName, MobileText,
                                       DetailsText, session_id, complaint_id)
               stored == IF sessions[session_id] = None THEN <<>>
                         ELSE sessions[session_id][1].chat_history
           IN  /\ ~r.raised
               /\ Len(r.st.g) = Len(grievances) + 1
               /\ r.st.g[Len(r.st.g)].complaint_id = complaint_id
               /\ r.st.g[Len(r.st.g)].chat_history =
                      Append(stored,
                             SystemEntry(session_id,
                                 <<"Complaint registered successfully with ID ">>
                                     \o complaint_id))
               /\ r.st.s[session_id] = None

\* C5: update_chat_session(session_id, user_data, current_step) on an
\* existing session changes only user_data, current_step and updated_at:
\* the session's chat_history after the call equals the one before it.
C5_UpdateKeepsChatHistory ==
    \A session_id \in SessionIds, state \in DirectSessionStates :
        sessions[session_id] # None =>
            LET r == update_chat_session(Store, session_id, state[1], state[2])
            IN  /\ ~r.raised
                /\ r.st.g = grievances
                /\ \A other \in SessionIds \ {session_id} :
                       r.st.s[other] = sessions[other]
                /\ r.st.s[session_id] # None
                /\ r.st.s[session_id][1].chat_history
                       = sessions[session_id][1].chat_history

----------------------------------------------------------------------------
(* The transcript of a conversation *)

\* The user entry and the bot entry of the turns k..n, as chat_text
RECURSIVE TurnTexts(_, _)
TurnTexts(k, n) ==
    IF k > n THEN <<>>
    ELSE << <<"User: ">> \o turns[k].message,
            <<"Bot: ">> \o turns[k].response >> \o TurnTexts(k + 1, n)

\* The turn before turn n that created the session: the last first contact
CreatedAt(n) ==
    CHOOSE c \in 1..n :
        /\ turns[c].response = WelcomeText
        /\ \A k \in (c + 1)..n : turns[k].response # WelcomeText

\* C3: for a conversation on one session_id that ends in a successful
\* registration, the new complaint's chat_history contains, in turn order,
\* the user entry and the bot entry of every turn processed for that session
\* since its creation, followed by the final utterance and the system
\* registration entry.
C3_PromotedTranscript ==
    (turns # <<>> /\ turns[Len(turns)].is_complaint_registered) =>
        LET n == Len(turns)
            row == grievances[Len(grievances)]
        IN  [k \in 1..Len(row.chat_history) |-> row.chat_history[k].chat_text]
                = TurnTexts(CreatedAt(n) + 1, n - 1)
                    \o << <<"User: ">> \o turns[n].message,
                          <<"System: ",
                            "Complaint registered successfully with ID ">>
                              \o row.complaint_id >>

\* C6: feeding the four utterances [text classified as register_complaint,
\* valid name, valid mobile, details of at least 10 characters] through
\* process_message in sequence against a fresh session_id yields
\* is_complaint_registered = True on the fourth call, with a response
\* containing a GRV+6-digit id.
C6_RoundTripInFourCalls ==
    (/\ Len(turns) >= 4
     /\ turns[2].message = NameText
     /\ turns[3].message = MobileText
     /\ turns[4].message = DetailsText
     /\ \A k \in 1..4 : ~turns[k].raised)
    => /\ turns[4].is_complaint_registered
       /\ \E complaint_id \in ComplaintIds :
              turns[4].response = RegisteredText(complaint_id)

----------------------------------------------------------------------------
(* The turns of the engine *)

\* C7: after a process_message call that returns is_complaint_registered =
\* True, no temp session record exists for that session_id.
C7_NoSessionAfterRegistration ==
    \A session_id \in ChatSessionIds, message \in Utterances :
      \A llm \in LlmChoices(session_id) :
        \A rag \in RagChoices(llm),
           complaint_id \in IdChoices(session_id, message),
           pick \in PickChoices(session_id, message) :
          LET r == process_message(Store, session_id, message, llm, rag,
                                   complaint_id, pick)
          IN  r.is_complaint_registered => r.st.s[session_id] = None

Steps == {INITIAL_CHOICE, COLLECTING_NAME, COLLECTING_MOBILE,
          COLLECTING_COMPLAINT, COLLECTING_COMPLAINT_ID_OR_MOBILE}

Edges ==
    {<<INITIAL_CHOICE, COLLECTING_NAME>>,
     <<COLLECTING_NAME, COLLECTING_MOBILE>>,
     <<COLLECTING_MOBILE, COLLECTING_COMPLAINT>>,
     <<COLLECTING_COMPLAINT, INITIAL_CHOICE>>,
     <<INITIAL_CHOICE, COLLECTING_COMPLAINT_ID_OR_MOBILE>>,
     <<COLLECTING_COMPLAINT_ID_OR_MOBILE, INITIAL_CHOICE>>}

\* C9: over any sequence of completed process_message turns, a session's
\* persisted current_step is one of the five states, and between consecutive
\* turns it stays unchanged or follows one of the edges; 'completed' is never
\* persisted.  (A completed turn ends in update_chat_session, so it leaves a
\* current_step that is not NULL; a session starts in INITIAL_CHOICE.)
C9_StepsFollowEdges ==
    [][\A session_id \in SessionIds :
         (/\ sessions'[session_id] # None
          /\ sessions'[session_id][1].current_step # NULL)
         => /\ sessions'[session_id][1].current_step \in Steps
            /\ IF sessions[session_id] = None
               THEN sessions'[session_id][1].current_step = INITIAL_CHOICE
               ELSE \/ sessions'[session_id][1].current_step
                          = sessions[session_id][1].current_step
                    \/ <<sessions[session_id][1].current_step,
                         sessions'[session_id][1].current_step>> \in Edges]_vars

\* One session is back in INITIAL_CHOICE with its complaint registered, the
\* other waits for a complaint id or a mobile number
C9_Witness ==
    \E session_id, other \in ChatSessionIds :
        /\ sessions[session_id] # None
        /\ sessions[session_id][1].current_step = INITIAL_CHOICE
        /\ \E i \in 1..Len(grievances) : Linked(Store, session_id, i)
        /\ sessions[other] # None
        /\ sessions[other][1].current_step = COLLECTING_COMPLAINT_ID_OR_MOBILE

\* The state the classifier's label leads to from INITIAL_CHOICE
NextOfLabel(label) ==
    IF label = "register_complaint" THEN COLLECTING_NAME
    ELSE IF label = "check_status" THEN COLLECTING_COMPLAINT_ID_OR_MOBILE
    ELSE INITIAL_CHOICE

\* C10: in state INITIAL_CHOICE the next state is determined by the
\* classifier label alone: register_complaint gives COLLECTING_NAME,
\* check_status gives COLLECTING_COMPLAINT_ID_OR_MOBILE, and general (with
\* every error or unrecognized label) leaves the session in INITIAL_CHOICE;
\* in all three cases user_data is unchanged and no complaint is created.
C10_LabelDecidesNextState ==
    \A session_id \in ChatSessionIds :
      (/\ sessions[session_id] # None
       /\ sessions[session_id][1].current_step = INITIAL_CHOICE)
      => \A message \in Utterances, llm \in ClassifierOutcomes :
           \A rag \in RagChoices(llm) :
             LET r == process_message(Store, session_id, message, llm, rag,
                                      None, 0)
             IN  /\ r.st.s[session_id] # None
                 /\ r.st.s[session_id][1].current_step
                        = NextOfLabel(analyze_intent(llm))
                 /\ r.st.s[session_id][1].user_data
                        = sessions[session_id][1].user_data
                 /\ r.st.g = grievances


\* The field check of a collecting state fails on this utterance
FieldCheckFails(current_step, message) ==
    \/ current_step = COLLECTING_NAME /\ ~Truthy(ExtractName(message))
    \/ current_step = COLLECTING_MOBILE /\ ~Truthy(ExtractMobile(message))
    \/ current_step = COLLECTING_COMPLAINT /\ Len(Strip(message)) < 10

\* C11: when the field check of a collecting state fails (no valid name in
\* COLLECTING_NAME, no mobile in COLLECTING_MOBILE, fewer than 10 characters
\* after trimming in COLLECTING_COMPLAINT), the turn persists the same
\* current_step and the same user_data as before the turn, returns
\* is_complaint_registered = False and creates no complaint.
C11_FailedFieldCheckStays ==
    \A session_id \in ChatSessionIds, message \in Utterances,
       complaint_id \in ComplaintIds \cup {None} :
      (/\ sessions[session_id] # None
       /\ FieldCheckFails(sessions[session_id][1].current_step, message))
      => LET r == process_message(Store, session_id, message, "-", "-",
                                  complaint_id, 0)
         IN  /\ ~r.raised
             /\ r.is_complaint_registered = FALSE
             /\ r.st.g = grievances
             /\ r.st.s[session_id] # None
             /\ r.st.s[session_id][1].current_step
                    = sessions[session_id][1].current_step
             /\ r.st.s[session_id][1].user_data
                    = sessions[session_id][1].user_data

\* One session holds a name and a mobile and gets a text that is too short,
\* the other waits for a name and gets digits
C11_Witness ==
    \E session_id, other \in ChatSessionIds :
        /\ sessions[session_id] # None
        /\ sessions[session_id][1].current_step = COLLECTING_COMPLAINT
        /\ process_message(Store, session_id, NameText, "-", "-", None, 0)
               .response = TooShortText
        /\ sessions[other] # None
        /\ sessions[other][1].current_step = COLLECTING_NAME
        /\ process_message(Store, other, MobileText, "-", "-", None, 0)
               .response = InvalidNameText


\* The last turn before turn n that stored a name, and the last that stored
\* a mobile number
NameTurn(n) ==
    CHOOSE k \in 1..(n - 1) :
        /\ turns[k].response = AskMobileText(ExtractName(turns[k].message))
        /\ \A j \in (k + 1)..(n - 1) :
               turns[j].response # AskMobileText(ExtractName(turns[j].message))

MobileTurn(n) ==
    CHOOSE k \in 1..(n - 1) :
        /\ turns[k].response = AskComplaintText
        /\ \A j \in (k + 1)..(n - 1) : turns[j].response # AskComplaintText

\* C12: a COLLECTING_COMPLAINT turn with an utterance of at least 10 trimmed
\* characters whose store call succeeds creates exactly one complaint whose
\* name and mobile are the values stored by the COLLECTING_NAME and
\* COLLECTING_MOBILE turns of the same cycle and whose complaint_details is
\* the utterance, returns is_complaint_registered = True, and leaves
\* current_step = INITIAL_CHOICE with empty user_data.
C12_RegistrationFields ==
    /\ Len(grievances)
           = Cardinality({k \in 1..Len(turns) :
                             turns[k].is_complaint_registered})
    /\ (turns # <<>> /\ turns[Len(turns)].is_complaint_registered) =>
          LET n == Len(turns)
              row == grievances[Len(grievances)]
          IN  /\ Len(Strip(turns[n].message)) >= 10
              /\ row.name = ExtractName(turns[NameTurn(n)].message)
              /\ row.mobile = ExtractMobile(turns[MobileTurn(n)].message)
              /\ row.complaint_details = turns[n].message
              /\ turns[n].response = RegisteredText(row.complaint_id)
              /\ sessions[TurnSessionId] # None
              /\ sessions[TurnSessionId][1].current_step = INITIAL_CHOICE
              /\ sessions[TurnSessionId][1].user_data = Some(EmptyUserData)

\* The conversation has just registered a complaint under a three-word name
C12_Witness ==
    /\ turns # <<>>
    /\ turns[Len(turns)].is_complaint_registered
    /\ grievances[Len(grievances)].name = ExtractName(DetailsText)


\* register_grievance fails in a COLLECTING_COMPLAINT turn of session_id:
\* the id drawn is taken, the session is found linked, or a field is missing
RegistrationFails(session_id, message, complaint_id) ==
    /\ sessions[session_id] # None
    /\ sessions[session_id][1].current_step = COLLECTING_COMPLAINT
    /\ Len(Strip(message)) >= 10
    /\ register_grievance(Store,
           get_chat_session(Store, session_id)[1].user_data.name,
           get_chat_session(Store, session_id)[1].user_data.mobile,
           message, session_id, complaint_id).raised

\* C13: when register_grievance fails during a COLLECTING_COMPLAINT turn (id
\* collision, session already linked, storage error), process_message does
\* not raise: it returns an apologetic message with is_complaint_registered
\* = False, persists current_step = INITIAL_CHOICE with empty user_data, and
\* the set of complaints is unchanged.
C13_FailedRegistrationApologises ==
    \A session_id \in ChatSessionIds, message \in Utterances,
       complaint_id \in ComplaintIds :
      RegistrationFails(session_id, message, complaint_id)
      => LET r == process_message(Store, session_id, message, "-", "-",
                                  complaint_id, 0)
         IN  /\ ~r.raised
             /\ r.response = RegisterErrorText
             /\ r.is_complaint_registered = FALSE
             /\ r.st.g = grievances
             /\ r.st.s[session_id] # None
             /\ r.st.s[session_id][1].current_step = INITIAL_CHOICE
             /\ r.st.s[session_id][1].user_data = Some(EmptyUserData)

\* A session that is linked to a complaint is asked for details again: the
\* registration fails whether the id drawn is taken or free
C13_Witness ==
    \E session_id \in ChatSessionIds :
        /\ \E i \in 1..Len(grievances) : Linked(Store, session_id, i)
        /\ \E complaint_id \in ComplaintIds :
               /\ RowsOf(Store, complaint_id) = {}
               /\ RegistrationFails(session_id, MobileText, complaint_id)
        /\ \E complaint_id \in ComplaintIds :
               /\ RowsOf(Store, complaint_id) # {}
               /\ RegistrationFails(session_id, MobileText, complaint_id)
               /\ process_message(Store, session_id, MobileText, "-", "-",
                                  complaint_id, 0).response = RegisterErrorText


\* C14: every COLLECTING_COMPLAINT_ID_OR_MOBILE turn, whether the lookup
\* finds a complaint or not, persists current_step = INITIAL_CHOICE with
\* empty user_data, returns is_complaint_registered = False, and neither
\* creates a complaint nor changes any complaint's status or chat_history.
C14_StatusInquiryReturnsToChoice ==
    \A session_id \in ChatSessionIds, message \in Utterances :
      (/\ sessions[session_id] # None
       /\ sessions[session_id][1].current_step
              = COLLECTING_COMPLAINT_ID_OR_MOBILE)
      => \A pick \in PickChoices(session_id, message),
            complaint_id \in ComplaintIds \cup {None} :
           LET r == process_message(Store, session_id, message, "-", "-",
                                    complaint_id, pick)
           IN  /\ ~r.raised
               /\ r.is_complaint_registered = FALSE
               /\ r.st.g = grievances
               /\ r.st.s[session_id] # None
               /\ r.st.s[session_id][1].current_step = INITIAL_CHOICE
               /\ r.st.s[session_id][1].user_data = Some(EmptyUserData)

\* A status inquiry while a complaint is stored: its id is found, its mobile
\* number is found, and a name finds nothing
C14_Witness ==
    \E session_id \in ChatSessionIds :
        /\ sessions[session_id] # None
        /\ sessions[session_id][1].current_step
               = COLLECTING_COMPLAINT_ID_OR_MOBILE
        /\ grievances # <<>>
        /\ process_message(Store, session_id, IdText, "-", "-", None, 0)
               .response = StatusText(grievances[1])
        /\ \E pick \in PickChoices(session_id, MobileText) :
               process_message(Store, session_id, MobileText, "-", "-", None,
                               pick).response = StatusText(grievances[pick])
        /\ process_message(Store, session_id, NameText, "-", "-", None, 0)
               .response = NotFoundText


\* C15: for every outcome of the external collaborator (exception,
\* unrecognized label, or any returned text including the empty string), a
\* process_message turn in INITIAL_CHOICE returns a response without raising
\* and ends with a valid persisted current_step and user_data.
C15_CollaboratorNeverBreaksTurn ==
    \A session_id \in ChatSessionIds :
      (/\ sessions[session_id] # None
       /\ sessions[session_id][1].current_step = INITIAL_CHOICE)
      => \A message \in Utterances, llm \in ClassifierOutcomes :
           \A rag \in RagChoices(llm) :
             LET r == process_message(Store, session_id, message, llm, rag,
                                      None, 0)
             IN  /\ ~r.raised
                 /\ Truthy(r.response)
                 /\ r.st.s[session_id] # None
                 /\ r.st.s[session_id][1].current_step \in Steps
                 /\ r.st.s[session_id][1].user_data # None


----------------------------------------------------------------------------
(* Registration and lookup *)

\* GRV followed by 6 decimal digits
IsComplaintId(text) ==
    /\ Len(text) = 9
    /\ SubSeq(text, 1, 3) = <<"G", "R", "V">>
    /\ \A k \in 4..9 : text[k] \in Digits

\* The dict holds value under key
Carries(dict, key, value) == key \in DOMAIN dict /\ dict[key] = value

\* C16: for all non-empty (name, mobile, details), register_grievance
\* returns an id of the form GRV followed by 6 decimal digits, and an
\* immediately following get_grievance_status by that id returns a record
\* carrying the same name, mobile and complaint_details that were passed in,
\* with status 'Submitted'.  (The id drawn is one no complaint has.)
C16_RegisterThenLookup ==
    \A name \in {DirectName, NameText}, mobile \in {MobileText},
       complaint_details \in {DetailsText, MobileText},
       complaint_id \in ComplaintIds :
      RowsOf(Store, complaint_id) = {} =>
        LET r == register_grievance(Store, name, mobile, complaint_details,
                                    None, complaint_id)
            found == get_grievance_status(r.st, r.ret, None, 0)
        IN  /\ ~r.raised
            /\ IsComplaintId(r.ret)
            /\ found # None
            /\ Carries(found[1], "complaint_id", r.ret)
            /\ Carries(found[1], "name", name)
            /\ Carries(found[1], "mobile", mobile)
            /\ Carries(found[1], "complaint_details", complaint_details)
            /\ Carries(found[1], "status", <<"Submitted">>)


\* C17: if the id generated by register_grievance equals the complaint_id
\* of an existing complaint, the call fails with an error and the existing
\* complaint (fields, status, chat_history) is unchanged, no second record
\* with that id exists, and a source session passed to the call is not
\* deleted; hence no two complaints ever share a complaint_id.
C17_IdCollisionFails ==
    /\ \A i, j \in 1..Len(grievances) :
           grievances[i].complaint_id = grievances[j].complaint_id => i = j
    /\ \A session_id \in SessionIds \cup {None},
          complaint_id \in ComplaintIds :
         RowsOf(Store, complaint_id) # {} =>
           LET r == register_grievance(Store, DirectName, MobileText,
                                       DetailsText, session_id, complaint_id)
           IN  /\ r.raised
               /\ r.st.g = grievances
               /\ r.st.s = sessions

\* A session that holds a chat history and is found linked to no complaint
\* registers with an id that a stored complaint has
C17_Witness ==
    \E session_id \in SessionIds, complaint_id \in ComplaintIds :
        /\ sessions[session_id] # None
        /\ sessions[session_id][1].chat_history # <<>>
        /\ ~_is_session_already_used(Store, session_id)
        /\ RowsOf(Store, complaint_id) # {}
        /\ register_grievance(Store, DirectName, MobileText, DetailsText,
                              session_id, complaint_id).raised


----------------------------------------------------------------------------
(* Store calls of concurrent threads, one step per SQL statement *)

\* The session_id each thread calls with, and the arguments of its calls
ThreadSession == [t \in Threads |-> IF t = "t1" THEN <<"a">> ELSE <<"U+00E9">>]
ThreadOps == {"register_grievance", "add_chat_message",
              "update_grievance_status"}
NewStatus == <<"In Progress">>
UpdateMessage == <<"(a note)">>

\* The chat_history of complaint_id as a reader sees it, <<>> without a row
HistoryOf(complaint_id) ==
    IF RowsOf(Store, complaint_id) = {} THEN <<>>
    ELSE grievances[CHOOSE i \in RowsOf(Store, complaint_id) : TRUE].chat_history

\* No thread is in a store call
AllIdle == \A t \in Threads : calls[t].pc = "idle"

\* A thread enters a store method: register_grievance(name, mobile, details,
\* session_id), add_chat_message(session_id, message, True, complaint_id) or
\* update_grievance_status(complaint_id, new_status, update_message)
Begin(t, op, db, complaint_id) ==
    /\ calls[t].pc = "idle"
    /\ calls' = [calls EXCEPT ![t] =
           [pc |-> "lock", op |-> op, db |-> db,
            session_id |-> IF op = "register_grievance" /\ db = "db"
                           THEN None ELSE ThreadSession[t],
            complaint_id |-> complaint_id,
            chat_entry |->
                IF op = "add_chat_message"
                THEN Some(ChatEntry(ThreadSession[t], <<"from ", t>>, TRUE))
                ELSE IF op = "update_grievance_status"
                THEN Some(SystemEntry(SystemMarker, UpdateMessage))
                ELSE None,
            chat_history |-> <<>>,
            before |-> IF op = "register_grievance"
                       THEN IF sessions[ThreadSession[t]] = None THEN <<>>
                            ELSE sessions[ThreadSession[t]][1].chat_history
                       ELSE HistoryOf(complaint_id),
            raised |-> FALSE]]
    /\ UNCHANGED <<grievances, sessions, now, turns, _lock>>

\* A lock that its holder cannot take again
CanAcquire_NotReentrant(t, db) == _lock[db] = "free"

\* self._lock = threading.RLock(): free, or held by the thread that asks
CanAcquire(t, db) == _lock[db] \in {"free", t}

\* with self._lock:
Acquire(t) ==
    /\ calls[t].pc = "lock"
    /\ _lock[calls[t].db] = "free"
    /\ CanAcquire(t, calls[t].db)
    /\ _lock' = [_lock EXCEPT ![calls[t].db] = t]
    /\ calls' = [calls EXCEPT ![t].pc =
           IF calls[t].op = "register_grievance"
           THEN IF Truthy(calls[t].session_id) THEN "used" ELSE "insert"
           ELSE IF calls[t].op = "add_chat_message" THEN "can_add"
           ELSE "status"]
    /\ UNCHANGED <<grievances, sessions, now, turns>>

\* The method returns or raises: the with block releases self._lock
Leave(t, raised) ==
    /\ calls' = [calls EXCEPT ![t].pc = "done", ![t].raised = raised]
    /\ _lock' = [_lock EXCEPT ![calls[t].db] = "free"]

\* The method goes on to its next statement
Goto(t, pc) ==
    /\ calls' = [calls EXCEPT ![t].pc = pc]
    /\ UNCHANGED _lock


\* register_grievance: if self._is_session_already_used(session_id): raise
CheckUsed(t) ==
    /\ calls[t].pc = "used"
    /\ IF _is_session_already_used(Store, calls[t].session_id)
       THEN Leave(t, TRUE)
       ELSE Goto(t, "temp")
    /\ UNCHANGED <<grievances, sessions, now, turns>>

\* register_grievance: temp_session = self.get_temp_chat_session(session_id),
\* which takes self._lock again for its SELECT
ReadTemp(t) ==
    /\ calls[t].pc = "temp"
    /\ CanAcquire(t, calls[t].db)
    /\ LET temp_session == get_temp_chat_session(Store, calls[t].session_id)
       IN  calls' = [calls EXCEPT
               ![t].pc = "insert",
               ![t].chat_history = IF temp_session # None
                                   THEN temp_session[1].chat_history
                                   ELSE <<>>]
    /\ UNCHANGED <<grievances, sessions, now, turns, _lock>>

\* A row that receives its registration entry without the history copied
InsertedHistory_Uncopied(chat_history, session_id, complaint_id) ==
    <<SystemEntry(IF Truthy(session_id) THEN session_id ELSE SystemMarker,
                  <<"Complaint registered successfully with ID ">>
                      \o complaint_id)>>

\* chat_history.append(registration_entry); json.dumps(chat_history)
InsertedHistory(chat_history, session_id, complaint_id) ==
    Append(chat_history,
           SystemEntry(IF Truthy(session_id) THEN session_id ELSE SystemMarker,
                       <<"Complaint registered successfully with ID ">>
                           \o complaint_id))

\* register_grievance: INSERT INTO grievances (...) VALUES (?, ?, ?, ?, ?),
\* one statement; complaint_id TEXT UNIQUE makes it fail on a duplicate
Insert(t) ==
    /\ calls[t].pc = "insert"
    /\ IF RowsOf(Store, calls[t].complaint_id) # {}
       THEN /\ Leave(t, TRUE)
            /\ UNCHANGED grievances
       ELSE /\ grievances' = Append(grievances,
                [complaint_id      |-> calls[t].complaint_id,
                 name              |-> DirectName,
                 mobile            |-> MobileText,
                 complaint_details |-> DetailsText,
                 status            |-> <<"Submitted">>,
                 chat_history      |-> InsertedHistory(calls[t].chat_history,
                                                       calls[t].session_id,
                                                       calls[t].complaint_id),
                 created_at        |-> now,
                 updated_at        |-> now])
            /\ IF Truthy(calls[t].session_id)
               THEN Goto(t, "delete")
               ELSE Leave(t, FALSE)
    /\ UNCHANGED <<sessions, now, turns>>

\* register_grievance: self.delete_temp_chat_session(session_id), which takes
\* self._lock again for its DELETE
DeleteSession(t) ==
    /\ calls[t].pc = "delete"
    /\ CanAcquire(t, calls[t].db)
    /\ sessions' = delete_temp_chat_session(Store, calls[t].session_id).s
    /\ Leave(t, FALSE)
    /\ UNCHANGED <<grievances, now, turns>>

\* add_chat_message: if not self._can_session_be_added_to_complaint(...): raise
CanAdd(t) ==
    /\ calls[t].pc = "can_add"
    /\ IF _can_session_be_added_to_complaint(Store, calls[t].session_id,
                                             calls[t].complaint_id)
       THEN Goto(t, "select")
       ELSE Leave(t, TRUE)
    /\ UNCHANGED <<grievances, sessions, now, turns>>

\* update_grievance_status: UPDATE grievances SET status = ? ...; commit
UpdateStatus(t) ==
    /\ calls[t].pc = "status"
    /\ IF RowsOf(Store, calls[t].complaint_id) = {}
       THEN /\ Leave(t, TRUE)
            /\ UNCHANGED grievances
       ELSE /\ grievances' =
                [grievances EXCEPT
                    ![CHOOSE i \in RowsOf(Store, calls[t].complaint_id) : TRUE]
                        = [@ EXCEPT !.status = NewStatus, !.updated_at = now]]
            /\ Goto(t, "select")
    /\ UNCHANGED <<sessions, now, turns>>

\* _add_to_complaint_chat_history: SELECT chat_history FROM grievances ...;
\* chat_history = json.loads(result[0]); raise without a row
SelectHistory(t) ==
    /\ calls[t].pc = "select"
    /\ IF RowsOf(Store, calls[t].complaint_id) = {}
       THEN Leave(t, TRUE)
       ELSE /\ calls' = [calls EXCEPT
                   ![t].pc = "update",
                   ![t].chat_history = HistoryOf(calls[t].complaint_id)]
            /\ UNCHANGED _lock
    /\ UNCHANGED <<grievances, sessions, now, turns>>

\* _add_to_complaint_chat_history: chat_history.append(chat_entry);
\* UPDATE grievances SET chat_history = ? ...; commit
UpdateHistory(t) ==
    /\ calls[t].pc = "update"
    /\ grievances' =
           [grievances EXCEPT
               ![CHOOSE i \in RowsOf(Store, calls[t].complaint_id) : TRUE]
                   = [@ EXCEPT !.chat_history = Append(calls[t].chat_history,
                                                       calls[t].chat_entry[1]),
                               !.updated_at = now]]
    /\ Leave(t, FALSE)
    /\ UNCHANGED <<sessions, now, turns>>

\* Calls made before the threads start, then the threads' calls
ThreadsNext ==
    \/ \E complaint_id \in ComplaintIds :
         /\ AllIdle
         /\ RegisterGrievance(None, complaint_id)
    \/ \E message \in DirectMessages :
         /\ AllIdle
         /\ AddChatMessage(ThreadSession["t1"], message, TRUE, None)
    \/ \E t \in Threads, op \in ThreadOps, db \in StoreObjects,
          complaint_id \in ComplaintIds :
         Begin(t, op, db, complaint_id)
    \/ \E t \in Threads : Acquire(t)
    \/ \E t \in Threads : CheckUsed(t)
    \/ \E t \in Threads : ReadTemp(t)
    \/ \E t \in Threads : Insert(t)
    \/ \E t \in Threads : DeleteSession(t)
    \/ \E t \in Threads : CanAdd(t)
    \/ \E t \in Threads : UpdateStatus(t)
    \/ \E t \in Threads : SelectHistory(t)
    \/ \E t \in Threads : UpdateHistory(t)

SpecThreads == Init /\ [][ThreadsNext]_vars


----------------------------------------------------------------------------
(* Registration as a concurrent reader sees it *)

\* The call of thread t has inserted its complaint
Created(t) ==
    /\ calls[t].op = "register_grievance"
    /\ calls[t].pc \in {"delete", "done"}
    /\ ~calls[t].raised

\* h begins with p
HasPrefix(h, p) == Len(p) <= Len(h) /\ SubSeq(h, 1, Len(p)) = p

\* C18: no concurrent caller of get_grievance_status ever observes a
\* complaint created by register_grievance(..., session_id=S) whose
\* chat_history holds only part of S's session history or lacks the final
\* system registration entry: from the step that makes the complaint
\* visible on, a lookup by its id returns it with the whole session history
\* followed by the registration entry (before that step the call has
\* written nothing).
C18_RegistrationIsOneUnit ==
    \A t \in Threads :
      Created(t) /\ Truthy(calls[t].session_id) =>
        LET found == get_grievance_status(Store, calls[t].complaint_id,
                                          None, 0)
        IN  /\ found # None
            /\ HasPrefix(found[1].chat_history,
                         Append(calls[t].before,
                                SystemEntry(calls[t].session_id,
                                    <<"Complaint registered successfully with ID ">>
                                        \o calls[t].complaint_id)))

\* A registration has just inserted a complaint with a copied history, its
\* session not yet deleted, while the other thread is inside a call
C18_Witness ==
    \E t \in Threads, u \in Threads :
        /\ t # u
        /\ Created(t) /\ calls[t].pc = "delete"
        /\ Len(calls[t].before) >= 2
        /\ sessions[calls[t].session_id] # None
        /\ calls[u].pc \notin {"idle", "lock", "done"}
        /\ get_grievance_status(Store, calls[t].complaint_id, None, 0) # None


----------------------------------------------------------------------------
(* Concurrent appends to one complaint's chat_history *)

\* How many times entry occurs in history
Count(history, entry) ==
    Cardinality({k \in 1..Len(history) : history[k] = entry})

\* The call of thread t appended its chat_entry to complaint_id and returned
Appended(t, complaint_id) ==
    /\ calls[t].op \in {"add_chat_message", "update_grievance_status"}
    /\ calls[t].complaint_id = complaint_id
    /\ calls[t].pc = "done"
    /\ ~calls[t].raised

\* Every call has returned or raised
AllReturned == \A t \in Threads : calls[t].pc = "done"

\* C19: when several callers concurrently append entries to the same
\* complaint's chat_history (add_chat_message with a complaint_id,
\* update_grievance_status with a note), no entry is lost: after all calls
\* return, the history contains every appended entry exactly once (as many
\* times as it was appended) and every entry that was there before.
C19_NoLostAppend ==
    AllReturned =>
      \A complaint_id \in ComplaintIds, t \in Threads :
        Appended(t, complaint_id) =>
          /\ Count(HistoryOf(complaint_id), calls[t].chat_entry[1])
                 = Cardinality({u \in Threads :
                       /\ Appended(u, complaint_id)
                       /\ calls[u].chat_entry = calls[t].chat_entry})
          /\ \A k \in 1..Len(calls[t].before) :
                 Count(HistoryOf(complaint_id), calls[t].before[k])
                     >= Count(calls[t].before, calls[t].before[k])

----------------------------------------------------------------------------
(* The lock of the store *)

\* Thread t is inside the with self._lock block of a mutating operation
InLockedBlock(t) == calls[t].pc \notin {"idle", "lock", "done"}

\* C20: in the running API process every pair of mutating store operations
\* (session upsert, complaint creation, status update, history append,
\* exclusivity check plus write) is mutually exclusive under one
\* mutual-exclusion mechanism, including operations issued through the
\* chatbot's store object and operations issued through the API module's
\* own store object.
C20_MutualExclusion ==
    \A t \in Threads, u \in Threads :
        t # u => ~(InLockedBlock(t) /\ InLockedBlock(u))


----------------------------------------------------------------------------
(* Failures inside a turn *)

\* C21: if a store operation fails at any point during a process_message
\* turn on an existing session so that the turn raises, the session's
\* stored current_step and user_data are the same as before the turn began.
C21_FailedTurnKeepsSessionState ==
    \A session_id \in ChatSessionIds :
      sessions[session_id] # None
      => \A message \in Utterances, llm \in LlmChoices(session_id) :
           \A rag \in RagChoices(llm) :
             LET r == process_message(Store, session_id, message, llm, rag,
                                      None, 0)
             IN  r.raised =>
                   /\ r.st.s[session_id] # None
                   /\ r.st.s[session_id][1].current_step
                          = sessions[session_id][1].current_step
                   /\ r.st.s[session_id][1].user_data
                          = sessions[session_id][1].user_data


\* _add_to_complaint_chat_history when a statement of it meets sqlite3.Error
\* (database is locked, disk I/O error): nothing is written and
\* RuntimeError is raised
_add_to_complaint_chat_history_sqlite_error(st, complaint_id, chat_entry) ==
    Raised(st, "RuntimeError")

\* update_grievance_status whose status UPDATE commits and whose note append
\* then meets sqlite3.Error or not
update_grievance_status_note(st, complaint_id, new_status, update_message, sqlite_error) ==
    IF ~Truthy(complaint_id) \/ ~Truthy(new_status) THEN Raised(st, "ValueError")
    ELSE IF RowsOf(st, complaint_id) = {} THEN Raised(st, "ValueError")
    ELSE LET i == CHOOSE i \in RowsOf(st, complaint_id) : TRUE
             updated == [st EXCEPT !.g[i].status = new_status,
                                   !.g[i].updated_at = now]
             status_entry == SystemEntry(SystemMarker, update_message)
         IN  IF ~Truthy(update_message) THEN Returned(updated, None)
             ELSE IF sqlite_error
             THEN _add_to_complaint_chat_history_sqlite_error(
                      updated, complaint_id, status_entry)
             ELSE _add_to_complaint_chat_history(updated, complaint_id,
                                                 status_entry)

\* C22: update_grievance_status(complaint_id, new_status, update_message)
\* with a note: if the note append fails after the status write has
\* committed, the call does not report failure to its caller (no exception
\* propagates), the new status stays in place, and the complaint's existing
\* chat_history entries are unchanged.
C22_NoteIsBestEffort ==
    \A complaint_id \in ComplaintIds :
      RowsOf(Store, complaint_id) # {} =>
        LET r == update_grievance_status_note(Store, complaint_id, NewStatus,
                                              UpdateMessage, TRUE)
            i == CHOOSE i \in RowsOf(Store, complaint_id) : TRUE
        IN  /\ ~r.raised
            /\ r.st.g[i].status = NewStatus
            /\ r.st.g[i].chat_history = grievances[i].chat_history


----------------------------------------------------------------------------
(* Lookups *)

\* C23: get_grievance_status called with neither complaint_id nor mobile
\* fails with an invalid-argument error: it does not return the same value
\* as a lookup that found nothing.
C23_NoSelectorIsAnError ==
    \A complaint_id \in ComplaintIds :
      RowsOf(Store, complaint_id) = {} =>
        get_grievance_status(Store, None, None, 0)
            # get_grievance_status(Store, complaint_id, None, 0)


\* The complaints registered with mobile, in the order of their creation
WithMobile(mobile) == {i \in 1..Len(grievances) : grievances[i].mobile = mobile}

\* C24: get_grievance_status(mobile=m), when several complaints were
\* registered with mobile m, returns the one that was created last among
\* them, for every order and timing of the registrations (including
\* registrations that fall within the same timestamp tick).
C24_MobileLookupReturnsLatest ==
    \A mobile \in {MobileText} :
      Cardinality(WithMobile(mobile)) >= 2 =>
        \A pick \in Picks(Store, mobile) :
          LET found == get_grievance_status(Store, None, mobile, pick)
              last == CHOOSE i \in WithMobile(mobile) :
                          \A k \in WithMobile(mobile) : k <= i
          IN  /\ found # None
              /\ found[1].complaint_id = grievances[last].complaint_id


----------------------------------------------------------------------------
(* Turns of a session that is linked to a complaint *)

\* entry is one of the entries of history
Holds(history, entry) == \E k \in 1..Len(history) : history[k] = entry

\* C25: during a process_message turn on a session_id that is already
\* linked to a complaint (its id tags entries of that complaint's
\* chat_history), the user utterance is recorded as an entry of that
\* complaint's chat_history rather than in a temp session.  (The turn is
\* one on a stored session: a first contact records no utterance.)
C25_LinkedTurnRecordsOnComplaint ==
    \A session_id \in ChatSessionIds, i \in 1..Len(grievances) :
      (Linked(Store, session_id, i) /\ sessions[session_id] # None) =>
        \A message \in Utterances, llm \in LlmChoices(session_id) :
          \A rag \in RagChoices(llm),
             complaint_id \in IdChoices(session_id, message),
             pick \in PickChoices(session_id, message) :
            LET r == process_message(Store, session_id, message, llm, rag,
                                     complaint_id, pick)
            IN  ~r.raised =>
                  Holds(r.st.g[i].chat_history,
                        ChatEntry(session_id, message, TRUE))


----------------------------------------------------------------------------
(* The sweep of old sessions *)

\* The clock counts half hours; hours_old of the sweeps the model makes
TicksPerHour == 2
SweepHours == {0, 1}

\* DELETE FROM temp_chat_sessions
\*  WHERE datetime(created_at) < datetime('now', '-{} hours'); the call
\* returns cursor.rowcount
cleanup_old_temp_sessions_Inclusive(st, hours_old) ==
    LET old == {session_id \in SessionIds :
                   /\ st.s[session_id] # None
                   /\ st.s[session_id][1].created_at
                          <= now - hours_old * TicksPerHour}
    IN  Returned([st EXCEPT !.s = [session_id \in SessionIds |->
                                      IF session_id \in old THEN None
                                      ELSE st.s[session_id]]],
                 Cardinality(old))

cleanup_old_temp_sessions(st, hours_old) ==
    LET old == {session_id \in SessionIds :
                   /\ st.s[session_id] # None
                   /\ st.s[session_id][1].created_at
                          < now - hours_old * TicksPerHour}
    IN  Returned([st EXCEPT !.s = [session_id \in SessionIds |->
                                      IF session_id \in old THEN None
                                      ELSE st.s[session_id]]],
                 Cardinality(old))

\* Half an hour passes
Tick ==
    /\ now < MaxNow
    /\ now' = now + 1
    /\ UNCHANGED <<grievances, sessions, turns, calls, _lock>>

CleanupOldTempSessions(hours_old) ==
    /\ StoreCommit(cleanup_old_temp_sessions(Store, hours_old).st)
    /\ UNCHANGED <<now, turns, calls, _lock>>

SweepNext ==
    \/ Tick
    \/ \E session_id \in ChatSessionIds, message \in DirectMessages :
         AddChatMessage(session_id, message, TRUE, None)
    \/ \E session_id \in ChatSessionIds, state \in DirectSessionStates :
         UpdateChatSession(session_id, state[1], state[2])
    \/ \E hours_old \in SweepHours : CleanupOldTempSessions(hours_old)

SpecSweep == Init /\ [][SweepNext]_vars

\* The time since the row of session_id was created, in ticks
Age(session_id) == now - sessions[session_id][1].created_at

\* C26: cleanup_old_temp_sessions(h) removes exactly the sessions whose
\* created_at is more than h hours in the past and returns their count;
\* every session created more recently than that is retained with its
\* user_data, current_step and chat_history unchanged.
C26_SweepRemovesExactlyTheOld ==
    \A hours_old \in SweepHours :
      LET r == cleanup_old_temp_sessions(Store, hours_old)
          expired == {session_id \in SessionIds :
                         /\ sessions[session_id] # None
                         /\ Age(session_id) > hours_old * TicksPerHour}
      IN  /\ ~r.raised
          /\ r.ret = Cardinality(expired)
          /\ \A session_id \in SessionIds :
                 IF session_id \in expired
                 THEN r.st.s[session_id] = None
                 ELSE r.st.s[session_id] = sessions[session_id]
          /\ r.st.g = grievances

\* A sweep of one hour meets a session older than an hour, one of exactly
\* an hour and one younger, and removes the first only
C26_Witness ==
    \E old \in SessionIds, edge \in SessionIds :
        /\ sessions[old] # None /\ sessions[edge] # None
        /\ Age(old) > TicksPerHour
        /\ Age(edge) = TicksPerHour
        /\ Truthy(sessions[edge][1].chat_history)
        /\ LET r == cleanup_old_temp_sessions(Store, 1)
           IN  /\ r.ret = 1
               /\ r.st.s[old] = None
               /\ r.st.s[edge] = sessions[edge]


----------------------------------------------------------------------------
(* What an operation may change of a complaint *)

\* Every complaint of before is in after, in its place, with the fields it
\* was created with
Durable(before, after) ==
    /\ Len(after) >= Len(before)
    /\ \A i \in 1..Len(before) :
           /\ after[i].complaint_id = before[i].complaint_id
           /\ after[i].name = before[i].name
           /\ after[i].mobile = before[i].mobile
           /\ after[i].complaint_details = before[i].complaint_details
           /\ after[i].created_at = before[i].created_at

UpdateGrievanceStatus(complaint_id, new_status, update_message) ==
    /\ StoreCommit(update_grievance_status(Store, complaint_id, new_status,
                                           update_message).st)
    /\ UNCHANGED <<now, turns, calls, _lock>>

\* The store and the engine called in any order for one session
LifeNext ==
    \/ \E session_id \in {TurnSessionId, None}, complaint_id \in ComplaintIds :
         RegisterGrievance(session_id, complaint_id)
    \/ \E message \in DirectMessages, complaint_id \in ComplaintIds \cup {None} :
         AddChatMessage(TurnSessionId, message, TRUE, complaint_id)
    \/ \E complaint_id \in ComplaintIds :
         AddSessionToExistingComplaint(complaint_id, TurnSessionId)
    \/ \E complaint_id \in ComplaintIds, update_message \in {None, UpdateMessage} :
         UpdateGrievanceStatus(complaint_id, NewStatus, update_message)
    \/ DeleteTempChatSession(TurnSessionId)
    \/ \E message \in Utterances :
         \E llm \in LlmChoices(TurnSessionId) :
           \E rag \in RagChoices(llm),
              complaint_id \in IdChoices(TurnSessionId, message),
              pick \in PickChoices(TurnSessionId, message) :
             ProcessMessage(TurnSessionId, message, llm, rag, complaint_id, pick)

SpecLife == Init /\ [][LifeNext]_vars

\* C27: once a complaint exists it is never deleted, and its complaint_id,
\* name, mobile and complaint_details never change under any later sequence
\* of store or engine operations (only status, chat_history and updated_at
\* may change).
C27_ComplaintsAreDurable == [][Durable(grievances, grievances')]_vars

\* Of two complaints, one has had its status updated with a note and the
\* other, linked to the session, its status without one
C27_Witness ==
    \E i \in 1..Len(grievances), j \in 1..Len(grievances) :
        /\ i # j
        /\ grievances[i].status = NewStatus
        /\ Holds(grievances[i].chat_history,
                 SystemEntry(SystemMarker, UpdateMessage))
        /\ grievances[j].status = NewStatus
        /\ Linked(Store, TurnSessionId, j)
        /\ grievances[i].name = DirectName


\* Every complaint's chat_history of before is a prefix of its chat_history
\* of after
AppendOnly(before, after) ==
    /\ Len(after) >= Len(before)
    /\ \A i \in 1..Len(before) :
           HasPrefix(after[i].chat_history, before[i].chat_history)

\* C28: a complaint's chat_history is append-only: for every operation, the
\* history before the operation is a prefix of the history after it
\* (entries are never removed, reordered or rewritten), and
\* update_grievance_status without a note leaves it unchanged.
C28_HistoryIsAppendOnly ==
    [][/\ AppendOnly(grievances, grievances')
       /\ \A complaint_id \in ComplaintIds :
            LET r == update_grievance_status(Store, complaint_id, NewStatus,
                                             None)
            IN  \A i \in 1..Len(grievances) :
                  r.st.g[i].chat_history = grievances[i].chat_history]_vars


----------------------------------------------------------------------------
(* Deleting a session *)

\* C29: delete_temp_chat_session is idempotent: calling it for a session_id
\* that has no stored session raises no error and changes nothing, and
\* calling it twice in a row has the same effect as calling it once.  (The
\* method has no raise: its value is the store it leaves.)
C29_DeleteIsIdempotent ==
    \A session_id \in SessionIds \cup {None} :
      LET once == delete_temp_chat_session(Store, session_id)
          twice == delete_temp_chat_session(once, session_id)
      IN  /\ twice = once
          /\ once.g = grievances
          /\ \A other \in SessionIds :
                 once.s[other] = IF other = session_id THEN None
                                 ELSE sessions[other]
          /\ (~Truthy(session_id) \/ sessions[session_id] = None)
                 => once = Store

\* One session is stored and one that differs from it by case only is not:
\* deleting the second changes nothing, deleting the first removes it
C29_Witness ==
    /\ sessions[<<"a">>] # None
    /\ sessions[<<"A">>] = None
    /\ Truthy(sessions[<<"a">>][1].chat_history)
    /\ delete_temp_chat_session(Store, <<"A">>) = Store
    /\ delete_temp_chat_session(Store, <<"a">>) # Store
    /\ delete_temp_chat_session(
           delete_temp_chat_session(Store, <<"a">>), <<"a">>).s[<<"a">>] = None


----------------------------------------------------------------------------
(* A session created by a chat entry *)

\* C30: a session record created by add_chat_message(session_id, msg,
\* is_user) for a session_id that had no stored session has the default
\* state (current_step INITIAL_CHOICE, empty user_data), so a following
\* process_message on that session_id dispatches as INITIAL_CHOICE and
\* returns a non-empty response.
C30_CreatedSessionHasDefaultState ==
    \A session_id \in ChatSessionIds, message \in DirectMessages :
      sessions[session_id] = None =>
        LET a == add_chat_message(Store, session_id, message, TRUE, None)
            session == get_chat_session(a.st, session_id)
        IN  /\ ~a.raised
            /\ session # None
            /\ session[1].current_step = INITIAL_CHOICE
            /\ session[1].user_data = EmptyUserData
            /\ \A said \in Utterances, llm \in ClassifierOutcomes :
                 \A rag \in RagChoices(llm) :
                   LET r == process_message(a.st, session_id, said, llm, rag,
                                            None, 0)
                   IN  ~r.raised /\ Truthy(r.response)


----------------------------------------------------------------------------
(* Adding a session to an existing complaint *)

\* session_id tags an entry of a complaint other than complaint_id
LinkedElsewhere(session_id, complaint_id) ==
    \E j \in 1..Len(grievances) :
        /\ grievances[j].complaint_id # complaint_id
        /\ Linked(Store, session_id, j)

\* C31: add_session_to_existing_complaint(C, S): if S is linked to a
\* complaint other than C it returns False and leaves C's history and S's
\* temp session unchanged; otherwise it returns True and, when S has stored
\* history, C's history grows by exactly S's entries in their original
\* order followed by one continuation system entry tagged S, and temp
\* session S no longer exists.  (C is a complaint that exists.)
C31_AddSessionToComplaint ==
    \A complaint_id \in ComplaintIds, session_id \in SessionIds :
      RowsOf(Store, complaint_id) # {} =>
        LET r == add_session_to_existing_complaint(Store, complaint_id,
                                                   session_id)
            i == CHOOSE i \in RowsOf(Store, complaint_id) : TRUE
        IN  IF LinkedElsewhere(session_id, complaint_id)
            THEN /\ r.ret = False
                 /\ r.st.g[i].chat_history = grievances[i].chat_history
                 /\ r.st.s[session_id] = sessions[session_id]
            ELSE /\ r.ret = True
                 /\ (sessions[session_id] # None
                     /\ sessions[session_id][1].chat_history # <<>>)
                    => /\ r.st.g[i].chat_history
                            = grievances[i].chat_history
                              \o sessions[session_id][1].chat_history
                              \o <<SystemEntry(session_id,
                                      <<"Continued conversation in session ">>
                                          \o session_id)>>
                       /\ r.st.s[session_id] = None


----------------------------------------------------------------------------
(* Which sessions a registration rejects *)

\* C32: register_grievance with session_id S is rejected as already linked
\* only if some complaint's chat_history contains an entry whose session_id
\* is exactly equal to S; a never-linked S that merely resembles a linked id
\* (differs only in letter case, or matches it when '_' or '%' in S is read
\* as a wildcard) is accepted.  (The id drawn is one no complaint has.)
C32_OnlyLinkedSessionsAreRejected ==
    \A session_id \in SessionIds, complaint_id \in ComplaintIds :
      RowsOf(Store, complaint_id) = {} =>
        LET r == register_grievance(Store, DirectName, MobileText, DetailsText,
                                    session_id, complaint_id)
        IN  r.raised => \E i \in 1..Len(grievances) :
                            Linked(Store, session_id, i)


----------------------------------------------------------------------------
(* The answer collaborator fails *)

\* C33: when the answer collaborator raises during an INITIAL_CHOICE turn
\* classified as general, the response returned to the caller is the fixed
\* re-prompt offering the two choices (register a complaint / check
\* status), not the canned apology text, and the session stays in
\* INITIAL_CHOICE with user_data unchanged.
C33_AnswerFailureReprompts ==
    \A session_id \in ChatSessionIds :
      (/\ sessions[session_id] # None
       /\ sessions[session_id][1].current_step = INITIAL_CHOICE)
      => \A message \in Utterances, llm \in ClassifierOutcomes :
           analyze_intent(llm) = "general" =>
             LET r == process_message(Store, session_id, message, llm,
                                      "exception", None, 0)
             IN  /\ ~r.raised
                 /\ r.response = RepromptText
                 /\ r.response # get_rag_response("exception")
                 /\ ~r.is_complaint_registered
                 /\ r.st.s[session_id] # None
                 /\ r.st.s[session_id][1].current_step = INITIAL_CHOICE
                 /\ r.st.s[session_id][1].user_data
                        = sessions[session_id][1].user_data
                 /\ r.st.g = grievances

\* A session in INITIAL_CHOICE whose general question meets a collaborator
\* that raises: the canned apology is produced and replaced
C33_Witness ==
    \E session_id \in ChatSessionIds :
        /\ sessions[session_id] # None
        /\ sessions[session_id][1].current_step = INITIAL_CHOICE
        /\ Len(grievances) >= 1
        /\ LooksLikeApology(get_rag_response("exception"))
        /\ process_message(Store, session_id, NameText, "general",
                           "exception", None, 0).response = RepromptText


----------------------------------------------------------------------------
(* An inquiry that names an id and a mobile number *)

\* C34: in COLLECTING_COMPLAINT_ID_OR_MOBILE, when the utterance contains
\* both a GRV id and a mobile number, the lookup uses the id only: if no
\* complaint has that id the response is the not-found message even when a
\* complaint exists for the mobile number; the mobile is used for lookup
\* only when no id is extracted.
C34_IdBeforeMobile ==
    \A session_id \in ChatSessionIds :
      (/\ sessions[session_id] # None
       /\ sessions[session_id][1].current_step
              = COLLECTING_COMPLAINT_ID_OR_MOBILE)
      => \A pick \in Picks(Store, MobileText) :
           LET both == process_message(Store, session_id, BothText, "-", "-",
                                       None, pick)
               by_mobile == process_message(Store, session_id, MobileText,
                                            "-", "-", None, pick)
               id == ExtractComplaintId(BothText)
           IN  /\ Truthy(id) /\ Truthy(ExtractMobile(BothText))
               /\ ~both.raised
               /\ both.response =
                      IF RowsOf(Store, id) = {} THEN NotFoundText
                      ELSE StatusText(
                               grievances[CHOOSE i \in RowsOf(Store, id) : TRUE])
               /\ by_mobile.response =
                      IF pick = 0 THEN NotFoundText
                      ELSE StatusText(grievances[pick])

\* An inquiry names an id no complaint has and the mobile of a complaint
\* that exists: nothing is found, while the mobile alone finds the complaint
C34_Witness ==
    \E session_id \in ChatSessionIds :
        /\ sessions[session_id] # None
        /\ sessions[session_id][1].current_step
               = COLLECTING_COMPLAINT_ID_OR_MOBILE
        /\ RowsOf(Store, ExtractComplaintId(BothText)) = {}
        /\ RowsByMobile(Store, MobileText) # {}
        /\ process_message(Store, session_id, BothText, "-", "-", None, 1)
               .response = NotFoundText
        /\ process_message(Store, session_id, MobileText, "-", "-", None, 1)
               .response = StatusText(grievances[1])


----------------------------------------------------------------------------
(* What a chat entry changes of its session *)

\* C35: add_chat_message(session_id, msg, is_user) without a complaint_id,
\* applied to an existing temp session, changes only that session's
\* chat_history (appending one entry) and updated_at: the session's stored
\* user_data and current_step are the same after the call as before.
C35_ChatEntryKeepsSessionState ==
    \A session_id \in SessionIds, message \in DirectMessages,
       is_user \in BOOLEAN :
      sessions[session_id] # None =>
        LET a == add_chat_message(Store, session_id, message, is_user, None)
        IN  /\ ~a.raised
            /\ a.st.s[session_id] # None
            /\ a.st.s[session_id][1].chat_history
                   = Append(sessions[session_id][1].chat_history,
                            ChatEntry(session_id, message, is_user))
            /\ a.st.s[session_id][1].user_data
                   = sessions[session_id][1].user_data
            /\ a.st.s[session_id][1].current_step
                   = sessions[session_id][1].current_step


----------------------------------------------------------------------------
(* The creation time of a session *)

\* C39: a session's created_at is fixed when the session is first created:
\* later update_chat_session and add_chat_message calls on that session_id
\* leave created_at unchanged, so a session first created longer ago than
\* the sweep threshold is removed by cleanup_old_temp_sessions even if it
\* has had recent turns.
C39_CreatedAtIsFixed ==
    \A session_id \in ChatSessionIds, message \in DirectMessages,
       state \in DirectSessionStates, hours_old \in SweepHours :
      sessions[session_id] # None =>
        LET a == add_chat_message(Store, session_id, message, TRUE, None).st
            u == update_chat_session(Store, session_id, state[1], state[2]).st
        IN  /\ a.s[session_id][1].created_at
                   = sessions[session_id][1].created_at
            /\ u.s[session_id][1].created_at
                   = sessions[session_id][1].created_at
            /\ Age(session_id) > hours_old * TicksPerHour
                   => /\ cleanup_old_temp_sessions(a, hours_old)
                             .st.s[session_id] = None
                      /\ cleanup_old_temp_sessions(u, hours_old)
                             .st.s[session_id] = None


----------------------------------------------------------------------------
(* What a session has collected in each state *)

\* The persisted user_data of row is the one its current_step calls for
Collected(row) ==
    /\ row.user_data # None
    /\ LET user_data == row.user_data[1]
       IN  /\ row.current_step \in Steps
           /\ row.current_step \in {INITIAL_CHOICE, COLLECTING_NAME,
                                    COLLECTING_COMPLAINT_ID_OR_MOBILE}
                  => user_data = EmptyUserData
           /\ row.current_step = COLLECTING_MOBILE
                  => /\ Truthy(user_data.name)
                     /\ ~Truthy(user_data.mobile)
                     /\ ~Truthy(user_data.complaint_details)
           /\ row.current_step = COLLECTING_COMPLAINT
                  => /\ Truthy(user_data.name)
                     /\ Len(user_data.mobile) = 10
                     /\ \A k \in 1..10 : user_data.mobile[k] \in Digits
                     /\ ~Truthy(user_data.complaint_details)

\* C36: at the end of every completed process_message turn the persisted
\* user_data matches the persisted state: it is empty in INITIAL_CHOICE and
\* COLLECTING_COMPLAINT_ID_OR_MOBILE, holds exactly no fields in
\* COLLECTING_NAME, holds 'name' in COLLECTING_MOBILE, and holds both 'name'
\* and a 10-digit 'mobile' in COLLECTING_COMPLAINT, so the registration call
\* never finds a collected field missing.
C36_UserDataMatchesState ==
    \A session_id \in ChatSessionIds, message \in Utterances :
      \A llm \in LlmChoices(session_id) :
        \A rag \in RagChoices(llm),
           complaint_id \in IdChoices(session_id, message),
           pick \in PickChoices(session_id, message) :
          LET r == process_message(Store, session_id, message, llm, rag,
                                   complaint_id, pick)
          IN  ~r.raised =>
                /\ r.st.s[session_id] # None
                /\ Collected(r.st.s[session_id][1])
                /\ r.is_complaint_registered =>
                     \E i \in RowsOf(r.st, complaint_id) :
                         /\ Truthy(r.st.g[i].name)
                         /\ Len(r.st.g[i].mobile) = 10
                         /\ Truthy(r.st.g[i].complaint_details)

\* A session that has given its name and mobile registers in its next turn
C36_Witness ==
    \E session_id \in ChatSessionIds, complaint_id \in ComplaintIds :
        /\ sessions[session_id] # None
        /\ sessions[session_id][1].current_step = COLLECTING_COMPLAINT
        /\ Collected(sessions[session_id][1])
        /\ process_message(Store, session_id, MobileText, "-", "-",
                           complaint_id, 0).is_complaint_registered


----------------------------------------------------------------------------
(* What is_complaint_registered reports *)

\* C37: process_message returns is_complaint_registered = True if and only
\* if the call added exactly one complaint to the store; every call that
\* returns False leaves the set of complaints and their fields unchanged.
C37_FlagMeansOneNewComplaint ==
    \A session_id \in ChatSessionIds, message \in Utterances :
      \A llm \in LlmChoices(session_id) :
        \A rag \in RagChoices(llm),
           complaint_id \in IdChoices(session_id, message),
           pick \in PickChoices(session_id, message) :
          LET r == process_message(Store, session_id, message, llm, rag,
                                   complaint_id, pick)
          IN  ~r.raised =>
                IF r.is_complaint_registered
                THEN /\ Len(r.st.g) = Len(grievances) + 1
                     /\ SubSeq(r.st.g, 1, Len(grievances)) = grievances
                     /\ r.st.g[Len(r.st.g)].complaint_id = complaint_id
                ELSE r.st.g = grievances

\* A session ready to register: with an id no complaint has the turn
\* returns True and adds the complaint, with the id of an existing
\* complaint it returns False and adds nothing
C37_Witness ==
    \E session_id \in ChatSessionIds, new \in ComplaintIds, old \in ComplaintIds :
        /\ sessions[session_id] # None
        /\ sessions[session_id][1].current_step = COLLECTING_COMPLAINT
        /\ RowsOf(Store, new) = {} /\ RowsOf(Store, old) # {}
        /\ LET r == process_message(Store, session_id, MobileText, "-", "-",
                                    new, 0)
           IN  r.is_complaint_registered /\ Len(r.st.g) = Len(grievances) + 1
        /\ LET r == process_message(Store, session_id, MobileText, "-", "-",
                                    old, 0)
           IN  ~r.raised /\ ~r.is_complaint_registered /\ r.st.g = grievances


----------------------------------------------------------------------------
(* One complaint for a session *)

\* C38: over any sequence of process_message calls, one session_id produces
\* at most one complaint: once a registration under session_id S has
\* succeeded, every later COLLECTING_COMPLAINT turn under S ends with
\* is_complaint_registered = False and no new complaint.
C38_OneComplaintPerSession ==
    \A session_id \in ChatSessionIds :
      (/\ \E i \in 1..Len(grievances) : Linked(Store, session_id, i)
       /\ sessions[session_id] # None
       /\ sessions[session_id][1].current_step = COLLECTING_COMPLAINT)
      => \A message \in Utterances :
           \A complaint_id \in IdChoices(session_id, message) :
             LET r == process_message(Store, session_id, message, "-", "-",
                                      complaint_id, 0)
             IN  /\ ~r.is_complaint_registered
                 /\ Len(r.st.g) = Len(grievances)


----------------------------------------------------------------------------
(* Every store call returns *)

\* A step of the call of thread t
ThreadStep(t) ==
    \/ Acquire(t) \/ CheckUsed(t) \/ ReadTemp(t) \/ Insert(t)
    \/ DeleteSession(t) \/ CanAdd(t) \/ UpdateStatus(t)
    \/ SelectHistory(t) \/ UpdateHistory(t)

\* The calls two threads make on one DatabaseManager, the chatbot's
LockNext ==
    \/ \E t \in Threads, op \in ThreadOps, complaint_id \in ComplaintIds :
         Begin(t, op, "chatbot.db", complaint_id)
    \/ \E t \in Threads : ThreadStep(t)

\* The threads of the server keep running: a call that can take a step
\* takes it
SpecLock ==
    Init /\ [][LockNext]_vars /\ \A t \in Threads : WF_vars(ThreadStep(t))

============================================================================
